---- MODULE Spec2Model ----
(***************************************************************************)
(* A model of the chat backend: the Redis cache helpers (config/redis.js), *)
(* the message pipeline AIService.processMessage with its stages, and the  *)
(* conversation store ChatService over the Chat model (models/Chat.js).    *)
(*                                                                         *)
(* Conventions.  Confidences are percentages (0.1 is 10, 0.7 is 70).  A    *)
(* message text is a sequence of one-character strings, so that            *)
(* toLowerCase() and trim() are computed, not assumed.  A response text is *)
(* a record of the features personalizeResponse reads (emoji, '!',         *)
(* empathy phrase, trailing '.', inner '.') plus the list of rewrites      *)
(* applied to it.  JavaScript null/undefined is the record Null.           *)
(***************************************************************************)
EXTENDS Integers, Sequences, FiniteSets, TLC

(***************************************************************************)
(* Bounds of the model.                                                    *)
(***************************************************************************)
MaxCalls == 2

(***************************************************************************)
(* Program constants.                                                      *)
(***************************************************************************)
RESPONSE_TTL == 3600
CONTEXT_TTL == 86400
HISTORY_CAP == 20
CHAT_TTL == 3600

Null == [null |-> TRUE]
IsNull(v) == v = Null

(***************************************************************************)
(* Message texts: String.prototype.toLowerCase and trim.                   *)
(***************************************************************************)
UpperCase == <<"A","B","C","D","E","F","G","H","I","J","K","L","M",
               "N","O","P","Q","R","S","T","U","V","W","X","Y","Z">>
LowerCase == <<"a","b","c","d","e","f","g","h","i","j","k","l","m",
               "n","o","p","q","r","s","t","u","v","w","x","y","z">>
WhiteSpace == {" ", "\t", "\n"}

LowerChar(ch) ==
  IF \E i \in DOMAIN UpperCase : UpperCase[i] = ch
  THEN LowerCase[CHOOSE i \in DOMAIN UpperCase : UpperCase[i] = ch]
  ELSE ch

ToLowerCase(s) == [i \in DOMAIN s |-> LowerChar(s[i])]

Trim(s) ==
  LET keep == {i \in DOMAIN s : s[i] \notin WhiteSpace}
  IN IF keep = {} THEN <<>>
     ELSE LET lo == CHOOSE i \in keep : \A j \in keep : i <= j
              hi == CHOOSE i \in keep : \A j \in keep : j <= i
          IN [k \in 1..(hi - lo + 1) |-> s[lo + k - 1]]

\* A message as the socket delivers it: a string, or not a string at all
\* (a 'message' event whose payload has no message field).
Str(chars) == [isString |-> TRUE, chars |-> chars]
NotAString == [isString |-> FALSE, chars |-> <<>>]

TextHello == Str(<<"h","e","l","l","o">>)
TextHelloLoud == Str(<<" ","H","e","l","l","o"," ">>)
TextBye == Str(<<"b","y","e">>)

Messages == {TextHello, TextHelloLoud, TextBye, NotAString}
Users == {"u1", "u2"}
Rooms == {"r1", "r2"}
\* The (userId, roomId) pairs messages arrive with.
Senders == {<<"u1", "r1">>, <<"u2", "r2">>}

(***************************************************************************)
(* config/redis.js.  A store is one key namespace of the Redis instance: a *)
(* function from the keys present to [value, ttl].  The client is usable   *)
(* when it exists and isReady; a failing Redis call behaves as "not        *)
(* ready" (both end in the helper's catch or early return).                *)
(***************************************************************************)
\* JSON.stringify followed by JSON.parse: data survives, a Mongoose
\* document comes back as a plain object without its methods.  Of a chat
\* the copy keeps roomId, status and participants: a handler that is given
\* the copy reads these and then fails on the first method it calls.
JsonRoundTrip(v) ==
  IF "isDocument" \in DOMAIN v
  THEN [isDocument |-> FALSE, roomId |-> v.roomId, status |-> v.status,
        participants |-> v.participants]
  ELSE v

\* setCache, were it to write whatever the state of the client.
setCacheStoreAlways(ready, store, key, value, expireTime) ==
  [k \in (DOMAIN store) \cup {key} |->
     IF k = key THEN [value |-> JsonRoundTrip(value), ttl |-> expireTime]
     ELSE store[k]]

setCacheStore(ready, store, key, value, expireTime) ==
  IF ready
  THEN [k \in (DOMAIN store) \cup {key} |->
          IF k = key THEN [value |-> JsonRoundTrip(value), ttl |-> expireTime]
          ELSE store[k]]
  ELSE store

setCacheResult(ready) == ready

getCache(ready, store, key) ==
  IF ready
  THEN IF key \in DOMAIN store THEN store[key].value ELSE Null
  ELSE Null

deleteCacheStore(ready, store, key) ==
  IF ready THEN [k \in (DOMAIN store) \ {key} |-> store[k]] ELSE store

EmptyStore == [k \in {} |-> Null]

(***************************************************************************)
(* Response texts.  T(id, emoji, bang, empathy, endsDot, innerDot): the    *)
(* text has one of the emoji 😊 👋 🌟, has a '!', has 'I understand' or    *)
(* "I'm here", ends with '.', has a '.' before its last character.         *)
(***************************************************************************)
T(id, emoji, bang, empathy, endsDot, innerDot) ==
  [id |-> id, emoji |-> emoji, bang |-> bang, empathy |-> empathy,
   endsDot |-> endsDot, innerDot |-> innerDot, rewrites |-> <<>>]

\* AIService.loadResponseTemplates: intent name -> its templates.
responseTemplates ==
  [greeting |-> << T("greeting1", TRUE, TRUE, TRUE, FALSE, FALSE),
                   T("greeting2", TRUE, TRUE, FALSE, FALSE, TRUE),
                   T("greeting3", FALSE, TRUE, FALSE, TRUE, TRUE),
                   T("greeting4", FALSE, TRUE, FALSE, FALSE, TRUE) >>,
   farewell |-> << T("farewell1", TRUE, TRUE, FALSE, FALSE, FALSE),
                   T("farewell2", FALSE, TRUE, FALSE, TRUE, FALSE),
                   T("farewell3", FALSE, TRUE, FALSE, TRUE, FALSE),
                   T("farewell4", TRUE, TRUE, FALSE, FALSE, TRUE) >>,
   help |-> << T("help1", FALSE, TRUE, TRUE, FALSE, TRUE),
               T("help2", FALSE, TRUE, FALSE, FALSE, TRUE),
               T("help3", FALSE, TRUE, TRUE, FALSE, TRUE) >>,
   question |-> << T("question1", FALSE, TRUE, FALSE, FALSE, TRUE),
                   T("question2", FALSE, TRUE, TRUE, FALSE, TRUE),
                   T("question3", FALSE, TRUE, FALSE, FALSE, FALSE) >>,
   complaint |-> << T("complaint1", FALSE, FALSE, FALSE, TRUE, TRUE),
                    T("complaint2", FALSE, FALSE, TRUE, TRUE, TRUE),
                    T("complaint3", FALSE, FALSE, FALSE, TRUE, TRUE) >>,
   compliment |-> << T("compliment1", TRUE, TRUE, FALSE, TRUE, FALSE),
                     T("compliment2", FALSE, TRUE, FALSE, TRUE, FALSE),
                     T("compliment3", FALSE, TRUE, TRUE, TRUE, TRUE) >>,
   information_request |-> << T("information_request1", FALSE, TRUE, FALSE, TRUE, FALSE),
                              T("information_request2", FALSE, TRUE, FALSE, TRUE, TRUE),
                              T("information_request3", FALSE, TRUE, FALSE, FALSE, TRUE) >>,
   task_request |-> << T("task_request1", FALSE, TRUE, FALSE, TRUE, FALSE),
                       T("task_request2", FALSE, TRUE, FALSE, TRUE, TRUE),
                       T("task_request3", FALSE, TRUE, FALSE, TRUE, FALSE) >>,
   learning |-> << T("learning1", FALSE, TRUE, FALSE, FALSE, TRUE),
                   T("learning2", FALSE, TRUE, TRUE, FALSE, TRUE),
                   T("learning3", FALSE, TRUE, FALSE, FALSE, TRUE) >>,
   creative |-> << T("creative1", FALSE, TRUE, FALSE, TRUE, FALSE),
                   T("creative2", FALSE, TRUE, TRUE, TRUE, FALSE),
                   T("creative3", FALSE, TRUE, FALSE, TRUE, FALSE) >>]

\* The fixed texts of generateFallbackResponse.
IntentFallbacks ==
  [question |-> T("fallback_question", FALSE, TRUE, FALSE, FALSE, FALSE),
   information_request |-> T("fallback_information_request", FALSE, TRUE, TRUE, FALSE, FALSE),
   task_request |-> T("fallback_task_request", FALSE, TRUE, FALSE, FALSE, FALSE),
   learning |-> T("fallback_learning", FALSE, TRUE, FALSE, FALSE, FALSE),
   creative |-> T("fallback_creative", FALSE, TRUE, FALSE, FALSE, FALSE)]
NegativeFallback == T("fallback_negative", FALSE, FALSE, TRUE, FALSE, TRUE)
GenericFallbacks ==
  << T("fallback_generic1", FALSE, FALSE, TRUE, FALSE, TRUE),
     T("fallback_generic2", FALSE, FALSE, TRUE, FALSE, TRUE),
     T("fallback_generic3", FALSE, TRUE, FALSE, FALSE, FALSE),
     T("fallback_generic4", FALSE, FALSE, FALSE, FALSE, TRUE) >>

\* The apology of generateResponse's catch and of processMessage's catch.
GenerateApology == T("apology_generate", FALSE, FALSE, FALSE, FALSE, TRUE)
ProcessApology == T("apology_process", FALSE, FALSE, FALSE, FALSE, TRUE)

\* What the external completion may answer (two shapes of text).
OpenAITexts ==
  { T("openai_plain", FALSE, FALSE, FALSE, TRUE, FALSE),
    T("openai_warm", TRUE, TRUE, FALSE, FALSE, TRUE) }

(***************************************************************************)
(* The stages of the pipeline.  The libraries behind them (the Bayes       *)
(* classifier, compromise, the sentiment lexicon, the OpenAI client) are   *)
(* outside the repository: their answers are inputs of the stage.          *)
(***************************************************************************)
\* The classifier's answer: it throws, or gives a label and the value of
\* getClassifications for it (0 stands for 0 or a missing value).
ClassifierLabels == {"greeting", "question"}
ClassifierValues == {0, 20, 65, 90}
ClassifierAnswers ==
  {[throws |-> TRUE, label |-> "", value |-> 0]} \cup
  [throws : {FALSE}, label : ClassifierLabels, value : ClassifierValues]

\* The completion request: it fails, or answers with a content.
OpenAIFailure == [ok |-> FALSE, content |-> "", text |-> Null]
OpenAIIntentAnswers == {OpenAIFailure, [ok |-> TRUE, content |-> "other", text |-> Null]}
OpenAITextAnswers ==
  {OpenAIFailure} \cup {[ok |-> TRUE, content |-> "", text |-> t] : t \in OpenAITexts}

\* value || 0.5
OrHalf(value) == IF value = 0 THEN 50 ELSE value
Max(a, b) == IF a >= b THEN a ELSE b

\* The escalation, were it not to look at the credential.
EscalatesIntentWithoutKey(cls, hasKey) == ~cls.throws /\ OrHalf(cls.value) < 60

\* detectIntent, were it to report the classifier's value as it is.
detectIntentNoFloor(cls, ai, hasKey) ==
  IF cls.throws
  THEN [name |-> "unknown", confidence |-> 10, source |-> "fallback"]
  ELSE IF ~cls.throws /\ OrHalf(cls.value) < 60 /\ hasKey /\ ai.ok
       THEN [name |-> ai.content, confidence |-> 80, source |-> "openai"]
       ELSE [name |-> cls.label, confidence |-> cls.value, source |-> "classifier"]

\* AIService.detectIntent; hasKey is process.env.OPENAI_API_KEY.
EscalatesIntent(cls, hasKey) == ~cls.throws /\ OrHalf(cls.value) < 60 /\ hasKey

detectIntent(cls, ai, hasKey) ==
  IF cls.throws
  THEN [name |-> "unknown", confidence |-> 10, source |-> "fallback"]
  ELSE IF EscalatesIntent(cls, hasKey) /\ ai.ok
       THEN [name |-> ai.content, confidence |-> 80, source |-> "openai"]
       ELSE [name |-> cls.label, confidence |-> Max(OrHalf(cls.value), 30),
             source |-> "classifier"]

\* AIService.extractEntities: the tagger throws, or gives the spans.
EntityAnswers ==
  { [throws |-> TRUE, spans |-> <<>>],
    [throws |-> FALSE, spans |-> <<>>],
    [throws |-> FALSE,
     spans |-> <<[type |-> "person", value |-> "John", confidence |-> 80]>>] }

extractEntities(doc) == IF doc.throws THEN <<>> ELSE doc.spans

\* AIService.analyzeSentiment: the analyzer throws, or gives a score.
SentimentScores == {-3, -2, 0, 2, 3}
SentimentAnswers ==
  {[throws |-> TRUE, score |-> 0]} \cup [throws : {FALSE}, score : SentimentScores]

\* The mapping, were its thresholds inclusive.
analyzeSentimentInclusive(res) ==
  IF res.throws THEN "neutral"
  ELSE IF res.score >= 2 THEN "positive"
  ELSE IF res.score <= -2 THEN "negative"
  ELSE "neutral"

analyzeSentiment(res) ==
  IF res.throws THEN "neutral"
  ELSE IF res.score > 2 THEN "positive"
  ELSE IF res.score < -2 THEN "negative"
  ELSE "neutral"

\* AIService.getContext
ContextKey(userId, roomId) == <<userId, roomId>>
DefaultContext ==
  [conversationHistory |-> <<>>, userPreferences |-> Null,
   lastIntent |-> Null, lastEntities |-> <<>>]

getContext(ready, store, userId, roomId) ==
  LET context == getCache(ready, store, ContextKey(userId, roomId))
  IN IF IsNull(context) THEN DefaultContext ELSE context

\* history.slice(-n)
SliceLast(h, n) ==
  IF Len(h) <= n THEN h ELSE [i \in 1..n |-> h[Len(h) - n + i]]

\* AIService.personalizeResponse
PersonalizeTone(t, sentiment) ==
  IF sentiment = "positive"
  THEN IF ~t.emoji /\ (t.endsDot \/ t.innerDot)
       THEN [t EXCEPT !.emoji = TRUE, !.bang = TRUE, !.endsDot = FALSE,
                      !.innerDot = FALSE, !.rewrites = Append(@, "enthusiasm")]
       ELSE t
  ELSE IF sentiment = "negative"
  THEN IF ~t.empathy /\ t.endsDot
       THEN [t EXCEPT !.empathy = TRUE, !.innerDot = TRUE,
                      !.rewrites = Append(@, "support")]
       ELSE t
  ELSE t

RecentTopics(context) ==
  LET recent == SliceLast(context.conversationHistory, 3)
  IN {recent[i].intent.name : i \in {j \in DOMAIN recent : ~IsNull(recent[j].intent)}}

PersonalizeContinuity(t, context) ==
  IF Len(context.conversationHistory) > 0 /\ Cardinality(RecentTopics(context)) = 1
     /\ t.endsDot
  THEN [t EXCEPT !.endsDot = FALSE, !.innerDot = TRUE, !.bang = TRUE,
                 !.rewrites = Append(@, "continuity")]
  ELSE t

PersonalizeWarmth(t) ==
  IF ~t.emoji /\ ~t.bang /\ t.endsDot
  THEN [t EXCEPT !.endsDot = FALSE, !.emoji = TRUE, !.bang = TRUE,
                 !.rewrites = Append(@, "warmth")]
  ELSE t

personalizeResponse(response, sentiment, context) ==
  PersonalizeWarmth(PersonalizeContinuity(PersonalizeTone(response, sentiment), context))

\* The fallback, were it to look at the sentiment first.
generateFallbackResponseSentimentFirst(intent, sentiment, pick) ==
  IF sentiment = "negative" THEN NegativeFallback
  ELSE IF intent.name \in DOMAIN IntentFallbacks THEN IntentFallbacks[intent.name]
  ELSE GenericFallbacks[pick]

\* AIService.generateFallbackResponse; pick is Math.random's choice.
generateFallbackResponse(intent, sentiment, pick) ==
  IF intent.name \in DOMAIN IntentFallbacks THEN IntentFallbacks[intent.name]
  ELSE IF sentiment = "negative" THEN NegativeFallback
  ELSE GenericFallbacks[pick]

\* The template test, were it to accept a confidence of 0.7.
TakesTemplateAtThreshold(intent) ==
  intent.name \in DOMAIN responseTemplates /\ intent.confidence >= 70

\* AIService.generateResponse; throws is an exception raised inside its try.
TakesTemplate(intent) ==
  intent.name \in DOMAIN responseTemplates /\ intent.confidence > 70

\* The request, were it sent without looking at the credential.
RequestsGenerationWithoutKey(intent, hasKey, throws) ==
  ~throws /\ ~TakesTemplate(intent)

\* Line 1246: generateResponse sends a completion request.
RequestsGeneration(intent, hasKey, throws) ==
  ~throws /\ ~TakesTemplate(intent) /\ hasKey

generateResponse(intent, sentiment, context, hasKey, ai, pick, throws) ==
  IF throws THEN GenerateApology
  ELSE IF TakesTemplate(intent)
  THEN personalizeResponse(responseTemplates[intent.name][pick], sentiment, context)
  ELSE IF hasKey /\ ai.ok
  THEN personalizeResponse(ai.text, sentiment, context)
  ELSE generateFallbackResponse(intent, sentiment, pick)

\* The choices Math.floor(Math.random() * length) can make on that path.
Picks(intent) ==
  IF TakesTemplate(intent) THEN DOMAIN responseTemplates[intent.name]
  ELSE DOMAIN GenericFallbacks

(***************************************************************************)
(* State.                                                                  *)
(***************************************************************************)
VARIABLES
  redisReady,   \* redisClient && redisClient.isReady
  openaiKey,    \* process.env.OPENAI_API_KEY is set
  aiCache,      \* Redis keys 'ai_response:<text>'
  ctxCache,     \* Redis keys 'context:<userId>:<roomId>'
  calls,        \* the processMessage invocations, by slot
  started,      \* number of processMessage calls made so far
  lastDone,     \* the latest call that returned: its message and result
  cacheLoss,    \* Redis was unready, or an entry expired, at some point
  processed,    \* per sender, the cache-miss calls that returned
  chatCache,    \* Redis keys 'chat:<roomId>'
  db,           \* the chats collection, by roomId
  activeChats,  \* ChatService.activeChats
  lastOp,       \* the latest ChatService call and its outcome
  dashCache,    \* Redis keys 'analytics:dashboard:<timeRange>'
  users,        \* the users collection: the accounts in the order they were saved
  pending       \* the registrations between their lookup and their save

aiVars == <<redisReady, openaiKey, aiCache, ctxCache, calls, started, lastDone,
            cacheLoss, processed>>
chatVars == <<chatCache, db, activeChats, lastOp>>
authVars == <<users, pending>>
vars == <<redisReady, openaiKey, aiCache, ctxCache, calls, started, lastDone,
          cacheLoss, processed, chatCache, db, activeChats, lastOp, dashCache, users,
          pending>>

(***************************************************************************)
(* AIService.processMessage, one step per await.  requests counts the      *)
(* completion requests the call has sent.                                  *)
(***************************************************************************)
CallSlots == {"c1"}

IdleCall ==
  [pc |-> "idle", message |-> NotAString, userId |-> "", roomId |-> "",
   intent |-> Null, entities |-> <<>>, sentiment |-> "", context |-> Null,
   response |-> Null, result |-> Null, trace |-> <<>>, raised |-> FALSE,
   prior |-> Null, sawEntry |-> FALSE, contextReads |-> 0, requests |-> 0]

\* The key, were it taken from the text as typed.
CacheKeyAsTyped(message) == Trim(message.chars)

\* `ai_response:${message.toLowerCase().trim()}`
CacheKey(message) == Trim(ToLowerCase(message.chars))

\* The catch block of processMessage.
FallbackResult ==
  [response |-> ProcessApology,
   intent |-> [name |-> "fallback", confidence |-> 10],
   entities |-> <<>>, sentiment |-> "neutral", confidence |-> 10, cached |-> FALSE]

\* The catch block, were it to rethrow.
CatchBlockRethrows(k) == [k EXCEPT !.pc = "thrown", !.raised = TRUE]

CatchBlock(k) ==
  [k EXCEPT !.pc = "returned", !.result = FallbackResult, !.raised = TRUE]

\* return { ...cachedResponse, responseTime, cached: true }
CachedReturn(k, cachedResponse) ==
  [k EXCEPT !.pc = "returned", !.result = [cachedResponse EXCEPT !.cached = TRUE]]

Began(k, stage) == [k EXCEPT !.trace = Append(@, stage)]

SameText(m1, m2) ==
  m1.isString /\ m2.isString
  /\ Trim(ToLowerCase(m1.chars)) = Trim(ToLowerCase(m2.chars))

\* The 'message' event handler calls processMessage(message, userId, roomId).
StartCall(c, message, sender) ==
  /\ calls[c].pc = "idle"
  /\ started < MaxCalls
  /\ started' = started + 1
  /\ calls' = [calls EXCEPT ![c] =
       [IdleCall EXCEPT !.pc = "cacheRead", !.message = message,
          !.userId = sender[1], !.roomId = sender[2],
          !.prior = IF ~IsNull(lastDone) /\ ~cacheLoss
                       /\ SameText(lastDone.message, message)
                    THEN lastDone.result ELSE Null]]
  /\ UNCHANGED <<authVars, dashCache, chatVars, redisReady, openaiKey, aiCache, ctxCache, lastDone, cacheLoss,
                 processed>>

\* Lines 1013-1023: the key, the cache read, the cached return.
StageCacheRead(c) ==
  LET k == calls[c] IN
  /\ k.pc = "cacheRead"
  /\ IF ~k.message.isString
     THEN calls' = [calls EXCEPT ![c] = CatchBlock(k)]
     ELSE LET cachedResponse == getCache(redisReady, aiCache, CacheKey(k.message))
              seen == [k EXCEPT !.sawEntry =
                         redisReady /\ Trim(ToLowerCase(k.message.chars)) \in DOMAIN aiCache]
          IN calls' = [calls EXCEPT ![c] =
               IF ~IsNull(cachedResponse) THEN CachedReturn(seen, cachedResponse)
               ELSE [seen EXCEPT !.pc = "intent"]]
  /\ UNCHANGED <<authVars, dashCache, chatVars, redisReady, openaiKey, aiCache, ctxCache, started, lastDone,
                 cacheLoss, processed>>

StageIntent(c) ==
  LET k == calls[c] IN
  /\ k.pc = "intent"
  /\ \E cls \in ClassifierAnswers :
       \E ai \in (IF EscalatesIntent(cls, openaiKey) THEN OpenAIIntentAnswers
                  ELSE {OpenAIFailure}) :
         calls' = [calls EXCEPT ![c] =
           [Began(k, "intent") EXCEPT !.pc = "entities",
              !.intent = detectIntent(cls, ai, openaiKey),
              !.requests = IF EscalatesIntent(cls, openaiKey) THEN @ + 1 ELSE @]]
  /\ UNCHANGED <<authVars, dashCache, chatVars, redisReady, openaiKey, aiCache, ctxCache, started, lastDone,
                 cacheLoss, processed>>

StageEntities(c) ==
  LET k == calls[c] IN
  /\ k.pc = "entities"
  /\ \E doc \in EntityAnswers :
       calls' = [calls EXCEPT ![c] =
         [Began(k, "entities") EXCEPT !.pc = "sentiment",
            !.entities = extractEntities(doc)]]
  /\ UNCHANGED <<authVars, dashCache, chatVars, redisReady, openaiKey, aiCache, ctxCache, started, lastDone,
                 cacheLoss, processed>>

StageSentiment(c) ==
  LET k == calls[c] IN
  /\ k.pc = "sentiment"
  /\ \E res \in SentimentAnswers :
       calls' = [calls EXCEPT ![c] =
         [Began(k, "sentiment") EXCEPT !.pc = "context",
            !.sentiment = analyzeSentiment(res)]]
  /\ UNCHANGED <<authVars, dashCache, chatVars, redisReady, openaiKey, aiCache, ctxCache, started, lastDone,
                 cacheLoss, processed>>

StageContext(c) ==
  LET k == calls[c] IN
  /\ k.pc = "context"
  /\ calls' = [calls EXCEPT ![c] =
       [Began(k, "context") EXCEPT !.pc = "generate",
          !.context = getContext(redisReady, ctxCache, k.userId, k.roomId),
          !.contextReads = @ + 1]]
  /\ UNCHANGED <<authVars, dashCache, chatVars, redisReady, openaiKey, aiCache, ctxCache, started, lastDone,
                 cacheLoss, processed>>

StageGenerate(c) ==
  LET k == calls[c] IN
  /\ k.pc = "generate"
  /\ \E throws \in BOOLEAN, pick \in Picks(k.intent) :
       \E ai \in (IF RequestsGeneration(k.intent, openaiKey, throws)
                  THEN OpenAITextAnswers ELSE {OpenAIFailure}) :
         calls' = [calls EXCEPT ![c] =
           [Began(k, "generate") EXCEPT !.pc = "update",
              !.response = generateResponse(k.intent, k.sentiment, k.context,
                                            openaiKey, ai, pick, throws),
              !.requests = IF RequestsGeneration(k.intent, openaiKey, throws)
                           THEN @ + 1 ELSE @]]
  /\ UNCHANGED <<authVars, dashCache, chatVars, redisReady, openaiKey, aiCache, ctxCache, started, lastDone,
                 cacheLoss, processed>>

\* The module of AIService binds getCache and setCache only: the free name
\* getContext that updateContext calls is bound nowhere.
FreeGetContextBound == FALSE

\* AIService.updateContext: the store after it, or the exception.
updateContext(ready, store, userId, roomId, contextData) ==
  IF ~FreeGetContextBound
  THEN [throws |-> TRUE, store |-> store]
  ELSE LET existingContext == getContext(ready, store, userId, roomId)
           updatedContext ==
             [conversationHistory |->
                SliceLast(contextData.conversationHistory, HISTORY_CAP),
              userPreferences |-> existingContext.userPreferences,
              lastIntent |-> contextData.lastIntent,
              lastEntities |-> contextData.lastEntities]
       IN [throws |-> FALSE,
           store |-> setCacheStore(ready, store, ContextKey(userId, roomId),
                                   updatedContext, CONTEXT_TTL)]

\* Lines 1035-1039: what processMessage hands to updateContext.
ContextData(k) ==
  [lastIntent |-> k.intent, lastEntities |-> k.entities,
   conversationHistory |->
     Append(k.context.conversationHistory,
            [message |-> k.message, intent |-> k.intent])]

\* Lines 1052-1060.
PipelineResult(k) ==
  [response |-> k.response, intent |-> k.intent, entities |-> k.entities,
   sentiment |-> k.sentiment, confidence |-> k.intent.confidence, cached |-> FALSE]

\* Lines 1034-1065: the context update, then the result and the cache write.
\* The update raises before its first await, so what follows it never runs.
StageUpdateContext(c) ==
  LET k == Began(calls[c], "contextUpdate")
      u == updateContext(redisReady, ctxCache, k.userId, k.roomId, ContextData(k))
  IN
  /\ calls[c].pc = "update"
  /\ IF u.throws
     THEN /\ calls' = [calls EXCEPT ![c] = CatchBlock(k)]
          /\ UNCHANGED <<aiCache, ctxCache>>
     ELSE /\ ctxCache' = u.store
          /\ aiCache' = setCacheStore(redisReady, aiCache, CacheKey(k.message),
                                      PipelineResult(k), RESPONSE_TTL)
          /\ calls' = [calls EXCEPT ![c] =
               [Began(k, "cacheWrite") EXCEPT !.pc = "returned",
                  !.result = PipelineResult(k)]]
  /\ UNCHANGED <<authVars, dashCache, chatVars, redisReady, openaiKey, started, lastDone, cacheLoss, processed>>

\* The caller has the result; the slot is free for the next call.
Missed(k) == k.message.isString /\ ~k.result.cached /\ Len(k.trace) > 0

FinishCall(c) ==
  LET k == calls[c] IN
  /\ k.pc = "returned"
  /\ lastDone' = [message |-> k.message, result |-> k.result]
  /\ processed' = IF Missed(k)
                  THEN [processed EXCEPT ![<<k.userId, k.roomId>>] = @ + 1]
                  ELSE processed
  /\ calls' = [calls EXCEPT ![c] = IdleCall]
  /\ UNCHANGED <<authVars, dashCache, chatVars, redisReady, openaiKey, aiCache, ctxCache, started, cacheLoss>>

\* The Redis client loses or regains its connection.
RedisDown ==
  /\ redisReady
  /\ redisReady' = FALSE
  /\ cacheLoss' = TRUE
  /\ UNCHANGED <<authVars, dashCache, chatVars, openaiKey, aiCache, ctxCache, calls, started, lastDone, processed>>

RedisUp ==
  /\ ~redisReady
  /\ redisReady' = TRUE
  /\ UNCHANGED <<authVars, dashCache, chatVars, openaiKey, aiCache, ctxCache, calls, started, lastDone,
                 cacheLoss, processed>>

\* An entry's time to live runs out.
ExpireResponse ==
  /\ \E key \in DOMAIN aiCache :
       aiCache' = [x \in (DOMAIN aiCache) \ {key} |-> aiCache[x]]
  /\ cacheLoss' = TRUE
  /\ UNCHANGED <<authVars, dashCache, chatVars, redisReady, openaiKey, ctxCache, calls, started, lastDone, processed>>

ExpireContext ==
  /\ \E key \in DOMAIN ctxCache :
       ctxCache' = [x \in (DOMAIN ctxCache) \ {key} |-> ctxCache[x]]
  /\ cacheLoss' = TRUE
  /\ UNCHANGED <<authVars, dashCache, chatVars, redisReady, openaiKey, aiCache, calls, started, lastDone, processed>>

ChatIdle ==
  /\ chatCache = EmptyStore
  /\ db = [r \in {} |-> Null]
  /\ activeChats = [r \in {} |-> Null]
  /\ lastOp = Null
  /\ dashCache = EmptyStore
  /\ users = <<>>
  /\ pending = {}

InitPipeline ==
  /\ redisReady = TRUE
  /\ openaiKey \in BOOLEAN
  /\ calls = [c \in CallSlots |-> IdleCall]
  /\ started = 0
  /\ lastDone = Null
  /\ cacheLoss = FALSE
  /\ processed = [s \in Senders |-> 0]
  /\ ChatIdle

\* A process that starts on an empty Redis.
Init ==
  /\ InitPipeline
  /\ aiCache = EmptyStore
  /\ ctxCache = EmptyStore

PipelineStep ==
  \/ \E c \in CallSlots, message \in Messages, sender \in Senders :
       StartCall(c, message, sender)
  \/ \E c \in CallSlots : StageCacheRead(c)
  \/ \E c \in CallSlots : StageIntent(c)
  \/ \E c \in CallSlots : StageEntities(c)
  \/ \E c \in CallSlots : StageSentiment(c)
  \/ \E c \in CallSlots : StageContext(c)
  \/ \E c \in CallSlots : StageGenerate(c)
  \/ \E c \in CallSlots : StageUpdateContext(c)
  \/ \E c \in CallSlots : FinishCall(c)
  \/ RedisDown
  \/ RedisUp

Next == PipelineStep

Spec == Init /\ [][Next]_vars

(***************************************************************************)
(* A process that starts on a Redis that already holds entries: Redis      *)
(* outlives the process and is shared, so what it holds at start-up is not *)
(* this process's doing.  The entries are a result as line 1063 stores it  *)
(* and a context as line 1438 stores it.                                   *)
(***************************************************************************)
SeedIntent == [name |-> "greeting", confidence |-> 90, source |-> "classifier"]
SeedResult ==
  [response |-> responseTemplates["greeting"][3], intent |-> SeedIntent,
   entities |-> <<>>, sentiment |-> "neutral", confidence |-> 90, cached |-> FALSE]
SeedContext ==
  [conversationHistory |-> <<[message |-> TextHello, intent |-> SeedIntent]>>,
   userPreferences |-> Null, lastIntent |-> SeedIntent, lastEntities |-> <<>>]

SeedResponses ==
  setCacheStore(TRUE, EmptyStore, CacheKey(TextHello), SeedResult, RESPONSE_TTL)
SeedContexts ==
  setCacheStore(TRUE, EmptyStore, ContextKey("u1", "r1"), SeedContext, CONTEXT_TTL)

InitWarm ==
  /\ InitPipeline
  /\ aiCache \in {EmptyStore, SeedResponses}
  /\ ctxCache \in {EmptyStore, SeedContexts}

NextWarm ==
  \/ PipelineStep
  \/ ExpireResponse
  \/ ExpireContext

SpecWarm == InitWarm /\ [][NextWarm]_vars

(***************************************************************************)
(* models/Chat.js and ChatService.  A chat document is a record with       *)
(* isDocument = TRUE; what getCache returns for it is the same data with   *)
(* isDocument = FALSE: a plain object, with no save, addMessage,           *)
(* addParticipant, removeParticipant and no messages.id.  A participant's  *)
(* userId compares by its id.  Any time may pass between two calls, so     *)
(* which chats have a lastActivity older than 24 hours is for the clock to *)
(* say when cleanupInactiveChats runs.  An average is the pair of its sum  *)
(* and its count.  Each handler is one step.                               *)
(***************************************************************************)
ChatUsers == {"u1", "u2"}
ChatRooms == {"r1"}
\* User.findById(userId).role
RoleOf(userId) == IF userId = "u2" THEN "admin" ELSE "user"

Ratio(num, den) == [num |-> num, den |-> den]
SameRatio(a, b) == a.num * b.den = b.num * a.den

RECURSIVE SumResponseTime(_)
SumResponseTime(messages) ==
  IF messages = <<>> THEN 0
  ELSE Head(messages).responseTime + SumResponseTime(Tail(messages))

RECURSIVE SumRating(_)
SumRating(messages) ==
  IF messages = <<>> THEN 0
  ELSE Head(messages).feedback.rating + SumRating(Tail(messages))

\* m.feedback && m.feedback.rating
IsRated(m) == ~IsNull(m.feedback) /\ m.feedback.rating # 0
RatedMessages(messages) == SelectSeq(messages, IsRated)

\* new Chat(chatData) of createChat, with the schema defaults.
NewChat(roomId, userId) ==
  [isDocument |-> TRUE, roomId |-> roomId, status |-> "active",
   participants |-> <<[userId |-> userId, left |-> FALSE]>>,
   messages |-> <<>>,
   analytics |-> [totalMessages |-> 0, averageResponseTime |-> Ratio(0, 1),
                  userSatisfaction |-> Ratio(0, 1)]]

\* The hook, were it to take the latest latency for the average.
PreSaveLatestLatency(doc) ==
  IF Len(doc.messages) > 0
  THEN LET rated == RatedMessages(doc.messages)
       IN [doc EXCEPT
             !.analytics.totalMessages = Len(doc.messages),
             !.analytics.averageResponseTime =
                Ratio(doc.messages[Len(doc.messages)].responseTime, 1),
             !.analytics.userSatisfaction =
                IF Len(rated) > 0 THEN Ratio(SumRating(rated), Len(rated))
                ELSE @]
  ELSE doc

\* chatSchema.pre('save')
PreSave(doc) ==
  IF Len(doc.messages) > 0
  THEN LET rated == RatedMessages(doc.messages)
       IN [doc EXCEPT
             !.analytics.totalMessages = Len(doc.messages),
             !.analytics.averageResponseTime =
                Ratio(SumResponseTime(doc.messages), Len(doc.messages)),
             !.analytics.userSatisfaction =
                IF Len(rated) > 0 THEN Ratio(SumRating(rated), Len(rated))
                ELSE @]
  ELSE doc

\* The required paths of messageSchema, checked when the chat is saved.
ValidMessage(m) ==
  /\ m.message.isString /\ Trim(m.message.chars) # <<>>
  /\ ~IsNull(m.response)
  /\ m.intent # ""

HasParticipant(chat, userId) ==
  \E i \in DOMAIN chat.participants : chat.participants[i].userId = userId

HasActiveParticipant(chat, userId) ==
  \E i \in DOMAIN chat.participants :
    chat.participants[i].userId = userId /\ ~chat.participants[i].left

\* chatSchema.methods.addMessage / addParticipant / removeParticipant
\* messageSchema: message is a String with trim: true.
CastMessage(messageObj) ==
  [messageObj EXCEPT !.message = IF @.isString THEN Str(Trim(@.chars)) ELSE @]

addMessage(doc, messageObj) ==
  PreSave([doc EXCEPT !.messages = Append(@, CastMessage(messageObj))])

addParticipant(doc, userId) ==
  PreSave(IF HasParticipant(doc, userId) THEN doc
          ELSE [doc EXCEPT !.participants =
                  Append(@, [userId |-> userId, left |-> FALSE])])

removeParticipant(doc, userId) ==
  LET first == CHOOSE i \in DOMAIN doc.participants :
                 /\ doc.participants[i].userId = userId
                 /\ \A j \in 1..(i - 1) : doc.participants[j].userId # userId
  IN PreSave(IF HasParticipant(doc, userId)
             THEN [doc EXCEPT !.participants[first].left = TRUE]
             ELSE doc)

\* What a handler leaves behind: the collection, the cache, the map of
\* active chats, and how it ended ("ok" or the error it threw).
Outcome(d, cache, active, how) ==
  [db |-> d, cache |-> cache, active |-> active, outcome |-> how]

\* ChatService.getChat: the chat, and the cache after the call.
getChat(roomId) ==
  LET cached == getCache(redisReady, chatCache, roomId)
  IN IF ~IsNull(cached) THEN [chat |-> cached, cache |-> chatCache]
     ELSE IF roomId \in DOMAIN db
     THEN [chat |-> db[roomId],
           cache |-> setCacheStore(redisReady, chatCache, roomId, db[roomId], CHAT_TTL)]
     ELSE [chat |-> Null, cache |-> chatCache]

WithKey(f, key, value) ==
  [k \in (DOMAIN f) \cup {key} |-> IF k = key THEN value ELSE f[k]]
WithoutKey(f, key) == [k \in (DOMAIN f) \ {key} |-> f[k]]

\* ChatService.createChat
createChat(userId, roomId) ==
  LET chat == PreSave(NewChat(roomId, userId))
  IN Outcome(WithKey(db, roomId, chat),
             setCacheStore(redisReady, chatCache, roomId, chat, CHAT_TTL),
             WithKey(activeChats, roomId, [participants |-> {userId}]),
             "ok")

\* ChatService.joinChat
joinChat(userId, roomId) ==
  LET g == getChat(roomId)
      chat == g.chat
      tracked == IF roomId \in DOMAIN activeChats
                 THEN [activeChats EXCEPT ![roomId].participants = @ \cup {userId}]
                 ELSE activeChats
  IN IF IsNull(chat) THEN Outcome(db, g.cache, activeChats, "Chat not found")
     ELSE IF chat.status # "active"
     THEN Outcome(db, g.cache, activeChats, "Chat is not active")
     ELSE IF HasActiveParticipant(chat, userId)
     THEN Outcome(db, g.cache, tracked, "ok")
     ELSE IF ~chat.isDocument
     THEN Outcome(db, g.cache, activeChats, "TypeError")
     ELSE LET saved == PreSave(addParticipant(chat, userId))
          IN Outcome(WithKey(db, roomId, saved),
                     setCacheStore(redisReady, g.cache, roomId, saved, CHAT_TTL),
                     tracked, "ok")

\* Lines 1657-1672: the message object saveMessage builds.
MessageObj(messageData) ==
  [userId |-> messageData.userId,
   message |-> messageData.message,
   response |-> messageData.response,
   intent |-> messageData.intent.name,
   entities |-> messageData.entities,
   sentiment |-> IF messageData.sentiment = "" THEN "neutral"
                 ELSE messageData.sentiment,
   confidence |-> IF messageData.confidence = 0 THEN 50
                  ELSE messageData.confidence,
   responseTime |-> messageData.responseTime,
   feedback |-> Null]

\* ChatService.saveMessage
\* saveMessage, were it to return without a chat to save to.
saveMessageLenient(messageData) ==
  LET roomId == messageData.roomId
      g == getChat(roomId)
      chat == g.chat
  IN IF IsNull(chat) \/ ~chat.isDocument \/ ~ValidMessage(MessageObj(messageData))
     THEN Outcome(db, g.cache, activeChats, "ok")
     ELSE LET saved == PreSave(addMessage(chat, MessageObj(messageData)))
          IN Outcome(WithKey(db, roomId, saved),
                     setCacheStore(redisReady, g.cache, roomId, saved, CHAT_TTL),
                     activeChats, "ok")

saveMessage(messageData) ==
  LET roomId == messageData.roomId
      g == getChat(roomId)
      chat == g.chat
  IN IF IsNull(chat) THEN Outcome(db, g.cache, activeChats, "Chat not found")
     ELSE IF ~chat.isDocument
     THEN Outcome(db, g.cache, activeChats, "TypeError")
     ELSE IF ~ValidMessage(MessageObj(messageData))
     THEN Outcome(db, g.cache, activeChats, "ValidationError")
     ELSE LET added == addMessage(chat, MessageObj(messageData))
              counted ==
                [added EXCEPT
                   !.analytics.totalMessages = Len(added.messages),
                   !.analytics.averageResponseTime =
                      Ratio(SumResponseTime(added.messages),
                            Len(added.messages))]
              saved == PreSave(counted)
          IN Outcome(WithKey(db, roomId, saved),
                     setCacheStore(redisReady, g.cache, roomId, saved, CHAT_TTL),
                     activeChats, "ok")

\* ChatService.updateChatAnalytics
updateChatAnalytics(chat) ==
  LET rated == RatedMessages(chat.messages)
  IN PreSave([chat EXCEPT !.analytics.userSatisfaction =
                IF Len(rated) > 0 THEN Ratio(SumRating(rated), Len(rated))
                ELSE @])

\* ChatService.addMessageFeedback; a message's _id is its position.
addMessageFeedback(roomId, messageId, feedback) ==
  LET g == getChat(roomId)
      chat == g.chat
  IN IF IsNull(chat) THEN Outcome(db, g.cache, activeChats, "Chat not found")
     ELSE IF ~chat.isDocument
     THEN Outcome(db, g.cache, activeChats, "TypeError")
     ELSE IF messageId \notin DOMAIN chat.messages
     THEN Outcome(db, g.cache, activeChats, "Message not found")
     ELSE LET saved == PreSave([chat EXCEPT !.messages[messageId].feedback = feedback])
          IN Outcome(WithKey(db, roomId, updateChatAnalytics(saved)),
                     setCacheStore(redisReady, g.cache, roomId, saved, CHAT_TTL),
                     activeChats, "ok")

\* ChatService.endChat
endChat(roomId, userId) ==
  LET g == getChat(roomId)
      chat == g.chat
  IN IF IsNull(chat) THEN Outcome(db, g.cache, activeChats, "Chat not found")
     ELSE IF ~HasParticipant(chat, userId)
     THEN Outcome(db, g.cache, activeChats, "User is not a participant in this chat")
     ELSE IF ~chat.isDocument
     THEN Outcome(db, g.cache, activeChats, "TypeError")
     ELSE LET removed == removeParticipant(chat, userId)
              nobody == \A i \in DOMAIN removed.participants :
                          removed.participants[i].left
              ended == IF nobody
                       THEN PreSave([removed EXCEPT !.status = "ended"])
                       ELSE removed
          IN Outcome(WithKey(db, roomId, ended),
                     setCacheStore(redisReady, g.cache, roomId, ended, CHAT_TTL),
                     IF ended.status = "ended" THEN WithoutKey(activeChats, roomId)
                     ELSE activeChats,
                     "ok")

\* ChatService.archiveChat
archiveChat(roomId, userId) ==
  LET g == getChat(roomId)
      chat == g.chat
  IN IF IsNull(chat) THEN Outcome(db, g.cache, activeChats, "Chat not found")
     ELSE IF RoleOf(userId) \notin {"admin", "moderator"}
     THEN Outcome(db, g.cache, activeChats, "Insufficient permissions")
     ELSE IF ~chat.isDocument
     THEN Outcome(db, g.cache, activeChats, "TypeError")
     ELSE Outcome(WithKey(db, roomId, PreSave([chat EXCEPT !.status = "archived"])),
                  deleteCacheStore(redisReady, g.cache, roomId),
                  WithoutKey(activeChats, roomId), "ok")

\* ChatService.cleanupInactiveChats; old: the chats whose lastActivity is
\* before the threshold.
InactiveChats(old) == {r \in old \cap DOMAIN db : db[r].status = "active"}

cleanupInactiveChats(old) ==
  Outcome([r \in DOMAIN db |->
             IF r \in InactiveChats(old)
             THEN PreSave([db[r] EXCEPT !.status = "paused"])
             ELSE db[r]],
          chatCache,
          [r \in (DOMAIN activeChats) \ InactiveChats(old) |-> activeChats[r]],
          "ok")

(***************************************************************************)
(* The calls made on ChatService.  lastOp keeps the latest call, its room  *)
(* and how it ended: "ok", or the error it threw.                          *)
(***************************************************************************)
MaxMsgs == 2

\* The payload of saveMessage as the 'message' handler builds it from the
\* result of processMessage.
MessageData(userId, roomId, message, aiResponse, responseTime) ==
  [userId |-> userId, roomId |-> roomId, message |-> message,
   response |-> aiResponse.response, intent |-> aiResponse.intent,
   entities |-> aiResponse.entities, sentiment |-> aiResponse.sentiment,
   confidence |-> aiResponse.confidence, responseTime |-> responseTime]

MessageInputs ==
  {MessageData("u1", r, TextHelloLoud, SeedResult, 100) : r \in ChatRooms} \cup
  {MessageData("u2", r, TextBye, FallbackResult, 200) : r \in ChatRooms} \cup
  {MessageData("u1", r, TextHello, FallbackResult, 300) : r \in ChatRooms} \cup
  {MessageData("u1", r, NotAString, FallbackResult, 0) : r \in ChatRooms}

\* feedback.rating is absent (0) or within the schema's 1..5.
FeedbackInputs ==
  {[rating |-> 5, comment |-> "good"], [rating |-> 2, comment |-> "bad"]}

Called(op, roomId, r) ==
  /\ db' = r.db
  /\ chatCache' = r.cache
  /\ activeChats' = r.active
  /\ lastOp' = [op |-> op, roomId |-> roomId, outcome |-> r.outcome]
  /\ UNCHANGED <<authVars, dashCache, aiVars>>

CreateChat(userId) ==
  \E roomId \in ChatRooms \ DOMAIN db :
    /\ userId \in ChatUsers
    /\ Called("createChat", roomId, createChat(userId, roomId))

JoinChat(userId, roomId) ==
  /\ userId \in ChatUsers
  /\ Called("joinChat", roomId, joinChat(userId, roomId))

SaveMessage(messageData) ==
  /\ messageData.roomId \in DOMAIN db =>
       Len(db[messageData.roomId].messages) < MaxMsgs
  /\ Called("saveMessage", messageData.roomId, saveMessage(messageData))

AddMessageFeedback(roomId, messageId, feedback) ==
  /\ feedback \in FeedbackInputs
  /\ Called("addMessageFeedback", roomId,
            addMessageFeedback(roomId, messageId, feedback))

EndChat(roomId, userId) ==
  /\ userId \in ChatUsers
  /\ Called("endChat", roomId, endChat(roomId, userId))

ArchiveChat(roomId, userId) ==
  /\ userId \in ChatUsers
  /\ Called("archiveChat", roomId, archiveChat(roomId, userId))

CleanupInactiveChats(old) ==
  /\ old \subseteq ChatRooms
  /\ Called("cleanupInactiveChats", "", cleanupInactiveChats(old))

\* A cached chat's time to live runs out.
ExpireChat ==
  /\ \E key \in DOMAIN chatCache : chatCache' = WithoutKey(chatCache, key)
  /\ UNCHANGED <<authVars, dashCache, aiVars, db, activeChats, lastOp>>

\* Redis is connected for the life of the process, or it never was.
InitChat ==
  /\ redisReady \in BOOLEAN
  /\ openaiKey = FALSE
  /\ aiCache = EmptyStore
  /\ ctxCache = EmptyStore
  /\ calls = [c \in CallSlots |-> IdleCall]
  /\ started = 0
  /\ lastDone = Null
  /\ cacheLoss = FALSE
  /\ processed = [s \in Senders |-> 0]
  /\ ChatIdle

NextChat ==
  \/ \E userId \in ChatUsers : CreateChat(userId)
  \/ \E userId \in ChatUsers, roomId \in ChatRooms : JoinChat(userId, roomId)
  \/ \E messageData \in MessageInputs : SaveMessage(messageData)
  \/ \E roomId \in ChatRooms, messageId \in 1..MaxMsgs, feedback \in FeedbackInputs :
       AddMessageFeedback(roomId, messageId, feedback)
  \/ \E roomId \in ChatRooms, userId \in ChatUsers : EndChat(roomId, userId)
  \/ \E roomId \in ChatRooms, userId \in ChatUsers : ArchiveChat(roomId, userId)
  \/ \E old \in SUBSET ChatRooms : CleanupInactiveChats(old)
  \/ ExpireChat

SpecChat == InitChat /\ [][NextChat]_vars

(***************************************************************************)
(* The life of a chat on a Redis whose connection comes and goes: the      *)
(* calls that create, join, fill, end, archive and clean up chats, with    *)
(* the client losing and regaining isReady between them.                   *)
(***************************************************************************)
NextChatOutage ==
  \/ \E userId \in ChatUsers : CreateChat(userId)
  \/ \E userId \in ChatUsers, roomId \in ChatRooms : JoinChat(userId, roomId)
  \/ \E messageData \in MessageInputs : SaveMessage(messageData)
  \/ \E roomId \in ChatRooms, userId \in ChatUsers : EndChat(roomId, userId)
  \/ \E roomId \in ChatRooms, userId \in ChatUsers : ArchiveChat(roomId, userId)
  \/ \E old \in SUBSET ChatRooms : CleanupInactiveChats(old)
  \/ ExpireChat
  \/ RedisDown
  \/ RedisUp

SpecChatOutage == InitChat /\ [][NextChatOutage]_vars

(***************************************************************************)
(* The stages of AIService called on their own, over the answers their     *)
(* libraries can give, one call at a time.  lastOp keeps the call: what it *)
(* was given, whether it sent a completion request, and what it returned.  *)
(***************************************************************************)
\* The intents the classifier is trained with, and the values it may give
\* (0 stands for 0 or a missing value).
TrainedLabels == DOMAIN responseTemplates
ProbedValues == {0, 10, 29, 30, 31, 50, 59, 60, 61, 70, 71, 90, 100}
ProbedClassifierAnswers ==
  {[throws |-> TRUE, label |-> "", value |-> 0]} \cup
  [throws : {FALSE}, label : {"greeting", "question", "complaint"},
   value : ProbedValues]

\* The intents generateResponse may be given: a trained label, the label of
\* a completion, or 'unknown'.
ProbedIntents ==
  [name : TrainedLabels \cup {"other", "unknown"},
   confidence : {10, 30, 50, 69, 70, 71, 80, 100},
   source : {"classifier"}]

ProbedScores == {-5, -3, -2, -1, 0, 1, 2, 3, 5}
ProbedSentimentAnswers ==
  {[throws |-> TRUE, score |-> 0]} \cup [throws : {FALSE}, score : ProbedScores]

Sentiments == {"positive", "negative", "neutral"}
ProbedContexts == {DefaultContext, SeedContext}

ApplyDetectIntent ==
  /\ IsNull(lastOp)
  /\ \E cls \in ProbedClassifierAnswers, ai \in OpenAIIntentAnswers :
       lastOp' = [op |-> "detectIntent", cls |-> cls, ai |-> ai,
                  requested |-> EscalatesIntent(cls, openaiKey),
                  result |-> detectIntent(cls, ai, openaiKey)]
  /\ UNCHANGED <<authVars, dashCache, aiVars, chatCache, db, activeChats>>

ApplyAnalyzeSentiment ==
  /\ IsNull(lastOp)
  /\ \E res \in ProbedSentimentAnswers :
       lastOp' = [op |-> "analyzeSentiment", res |-> res,
                  result |-> analyzeSentiment(res)]
  /\ UNCHANGED <<authVars, dashCache, aiVars, chatCache, db, activeChats>>

ApplyGenerateResponse ==
  /\ IsNull(lastOp)
  /\ \E intent \in ProbedIntents, sentiment \in Sentiments,
        context \in ProbedContexts, ai \in OpenAITextAnswers, throws \in BOOLEAN :
       \E pick \in Picks(intent) :
         lastOp' = [op |-> "generateResponse", intent |-> intent,
                    sentiment |-> sentiment, context |-> context, ai |-> ai,
                    pick |-> pick, throws |-> throws,
                    requested |-> RequestsGeneration(intent, openaiKey, throws),
                    result |-> generateResponse(intent, sentiment, context,
                                                 openaiKey, ai, pick, throws)]
  /\ UNCHANGED <<authVars, dashCache, aiVars, chatCache, db, activeChats>>

ApplyGenerateFallbackResponse ==
  /\ IsNull(lastOp)
  /\ \E intent \in ProbedIntents, sentiment \in Sentiments,
        pick \in DOMAIN GenericFallbacks :
       lastOp' = [op |-> "generateFallbackResponse", intent |-> intent,
                  sentiment |-> sentiment, pick |-> pick,
                  result |-> generateFallbackResponse(intent, sentiment, pick)]
  /\ UNCHANGED <<authVars, dashCache, aiVars, chatCache, db, activeChats>>

\* The caller takes the result; the next call can be made.
StageReturns ==
  /\ ~IsNull(lastOp)
  /\ lastOp' = Null
  /\ UNCHANGED <<authVars, dashCache, aiVars, chatCache, db, activeChats>>

InitStages ==
  /\ redisReady = TRUE
  /\ openaiKey \in BOOLEAN
  /\ aiCache = EmptyStore
  /\ ctxCache = EmptyStore
  /\ calls = [c \in CallSlots |-> IdleCall]
  /\ started = 0
  /\ lastDone = Null
  /\ cacheLoss = FALSE
  /\ processed = [s \in Senders |-> 0]
  /\ ChatIdle

NextStages ==
  \/ ApplyDetectIntent
  \/ ApplyAnalyzeSentiment
  \/ ApplyGenerateResponse
  \/ ApplyGenerateFallbackResponse
  \/ StageReturns

SpecStages == InitStages /\ [][NextStages]_vars

(***************************************************************************)
(* AnalyticsService.getDashboardData.  A call is one step.  What the User  *)
(* and Chat collections hold when the call runs is for the other services  *)
(* to say: the call is given it as `data`, with the messages the time      *)
(* filter matches and the counts of the newest trend bucket; mongoDown     *)
(* says that every query rejects.  Times are in seconds and count back     *)
(* from the time of the call.  realTime and timestamp are left out of the  *)
(* structures: no statistic is read from them.  lastOp keeps the call:     *)
(* its arguments, the client's isReady, the keys as they were, whether it  *)
(* generated, and what it returned.                                        *)
(***************************************************************************)
DASHBOARD_TTL == 300
intervalCount == 24

\* The arguments of getDashboardData: ranges, and a Symbol, which has no
\* string conversion (the template literal of line 122 throws on it).
DashboardArguments == {"1h", "24h", "7d", "30d", "90d", "Symbol()"}

\* The key, were it the same for every range.
DashboardKeyShared(timeRange) == <<"analytics:dashboard", "">>

\* `analytics:dashboard:${timeRange}`
DashboardKey(timeRange) == <<"analytics:dashboard", timeRange>>

\* The clock at the time of a call, in seconds.
Now == 8000000

\* getTimeFilter: the start of the window, in seconds.
getTimeFilter(timeRange, now) ==
  CASE timeRange = "1h" -> now - 60 * 60
    [] timeRange = "24h" -> now - 24 * 60 * 60
    [] timeRange = "7d" -> now - 7 * 24 * 60 * 60
    [] timeRange = "30d" -> now - 30 * 24 * 60 * 60
    [] timeRange = "90d" -> now - 90 * 24 * 60 * 60
    [] OTHER -> now - 24 * 60 * 60

getIntervalDuration(timeRange) ==
  CASE timeRange = "1h" -> (60 * 60) \div 24
    [] timeRange = "24h" -> 60 * 60
    [] timeRange = "7d" -> (24 * 60 * 60) \div 24
    [] timeRange = "30d" -> (30 * 24 * 60 * 60) \div 24
    [] timeRange = "90d" -> (90 * 24 * 60 * 60) \div 24
    [] OTHER -> 60 * 60

\* getTimeIntervals: the loop runs i from intervalCount - 1 down to 0 and
\* pushes, so the k-th bucket is the one of i = intervalCount - k.
getTimeIntervals(timeRange, now) ==
  [k \in 1..intervalCount |->
     LET i == intervalCount - k
     IN [start |-> now - i * getIntervalDuration(timeRange),
         end |-> now - (i - 1) * getIntervalDuration(timeRange)]]

\* The collections at the time of a call: nothing stored; users and a chat
\* with nothing in the window; a chat with two messages in the window.
DashboardData ==
  LET none == [messages |-> 0, users |-> 0, chats |-> 0, satisfaction |-> Ratio(0, 1)]
      base == [users |-> 0, activeUsers |-> 0, chats |-> 0, activeChats |-> 0,
               messages |-> 0, matching |-> <<>>, newest |-> none]
  IN { base,
       [base EXCEPT !.users = 2, !.chats = 1, !.activeChats = 1, !.messages = 2],
       [base EXCEPT !.users = 2, !.activeUsers = 1, !.chats = 1, !.activeChats = 1,
                    !.messages = 2,
                    !.matching =
                      <<[intent |-> "greeting", sentiment |-> "positive",
                         responseTime |-> 100, feedback |-> [rating |-> 5]],
                        [intent |-> "complaint", sentiment |-> "negative",
                         responseTime |-> 300, feedback |-> Null]>>,
                    !.newest = [messages |-> 1, users |-> 1, chats |-> 1,
                                satisfaction |-> Ratio(5, 1)]] }

\* The overall sentiment, were no counted message to read as positive.
calculateOverallSentimentUpbeat(sentimentStats) ==
  LET CountOf(id) ==
        IF \E stat \in sentimentStats : stat.id = id
        THEN (CHOOSE stat \in sentimentStats : stat.id = id).count ELSE 0
      total == CountOf("positive") + CountOf("negative") + CountOf("neutral")
  IN IF total = 0 THEN "positive"
     ELSE IF CountOf("positive") * 10 > 6 * total THEN "positive"
     ELSE IF CountOf("negative") * 10 > 6 * total THEN "negative"
     ELSE "neutral"

calculateOverallSentiment(sentimentStats) ==
  LET CountOf(id) ==
        IF \E stat \in sentimentStats : stat.id = id
        THEN (CHOOSE stat \in sentimentStats : stat.id = id).count ELSE 0
      total == CountOf("positive") + CountOf("negative") + CountOf("neutral")
  IN IF total = 0 THEN "neutral"
     ELSE IF CountOf("positive") * 10 > 6 * total THEN "positive"
     ELSE IF CountOf("negative") * 10 > 6 * total THEN "negative"
     ELSE "neutral"

getDefaultDashboardData ==
  [overview |-> [totalUsers |-> 0, activeUsers |-> 0, totalChats |-> 0,
                 activeChats |-> 0, totalMessages |-> 0,
                 averageResponseTime |-> Ratio(0, 1),
                 averageSatisfaction |-> Ratio(0, 1)],
   performance |-> [averageResponseTime |-> Ratio(0, 1), minResponseTime |-> 0,
                    maxResponseTime |-> 0, averageSatisfaction |-> Ratio(0, 1),
                    totalRatings |-> 0],
   trends |-> <<>>,
   intents |-> [intentDistribution |-> {}, totalIntents |-> 0],
   sentiments |-> [sentimentDistribution |-> {}, overallSentiment |-> "neutral"]]

\* The seven statistics helpers and the structure built from them.  Each
\* helper catches a rejected query and answers with zeros; getIntervalStats
\* does so per bucket, so the trend keeps its buckets.  A distribution is
\* the set of its groups.
generateDashboardData(timeRange, data, mongoDown) ==
  LET matching == IF mongoDown THEN <<>> ELSE data.matching
      rated == RatedMessages(matching)
      times == {matching[i].responseTime : i \in DOMAIN matching}
      Groups(field) ==
        {[id |-> v, count |-> Cardinality({i \in DOMAIN matching : matching[i][field] = v})] :
           v \in {matching[i][field] : i \in DOMAIN matching}}
      performanceStats ==
        [averageResponseTime |->
           IF matching = <<>> THEN Ratio(0, 1)
           ELSE Ratio(SumResponseTime(matching), Len(matching)),
         minResponseTime |->
           IF matching = <<>> THEN 0
           ELSE CHOOSE t \in times : \A u \in times : t <= u,
         maxResponseTime |->
           IF matching = <<>> THEN 0
           ELSE CHOOSE t \in times : \A u \in times : t >= u,
         averageSatisfaction |->
           IF rated = <<>> THEN Ratio(0, 1) ELSE Ratio(SumRating(rated), Len(rated)),
         totalRatings |-> Len(rated)]
      noStats == [messages |-> 0, users |-> 0, chats |-> 0, satisfaction |-> Ratio(0, 1)]
      trendData ==
        [b \in 1..intervalCount |->
           [timestamp |-> (intervalCount - b) * getIntervalDuration(timeRange)] @@
           (IF b = intervalCount /\ ~mongoDown THEN data.newest ELSE noStats)]
  IN [overview |->
        [totalUsers |-> IF mongoDown THEN 0 ELSE data.users,
         activeUsers |-> IF mongoDown THEN 0 ELSE data.activeUsers,
         totalChats |-> IF mongoDown THEN 0 ELSE data.chats,
         activeChats |-> IF mongoDown THEN 0 ELSE data.activeChats,
         totalMessages |-> IF mongoDown THEN 0 ELSE data.messages,
         averageResponseTime |-> performanceStats.averageResponseTime,
         averageSatisfaction |-> performanceStats.averageSatisfaction],
      performance |-> performanceStats,
      trends |-> trendData,
      intents |-> [intentDistribution |-> Groups("intent"),
                   totalIntents |-> Cardinality(Groups("intent"))],
      sentiments |-> [sentimentDistribution |-> Groups("sentiment"),
                      overallSentiment |->
                        calculateOverallSentiment(Groups("sentiment"))]]

\* getDashboardData on the keys `store`: what it returns, the keys after
\* it, and whether it generated.
getDashboardData(timeRange, data, mongoDown, ready, store) ==
  IF timeRange = "Symbol()"
  THEN [result |-> getDefaultDashboardData, store |-> store, generated |-> FALSE]
  ELSE LET cacheKey == DashboardKey(timeRange)
           cached == getCache(ready, store, cacheKey)
           dashboardData == generateDashboardData(timeRange, data, mongoDown)
       IN IF ~IsNull(cached)
          THEN [result |-> cached, store |-> store, generated |-> FALSE]
          ELSE [result |-> dashboardData,
                store |-> setCacheStore(ready, store, cacheKey, dashboardData,
                                        DASHBOARD_TTL),
                generated |-> TRUE]

GetDashboardData(timeRange, data, mongoDown) ==
  /\ IsNull(lastOp)
  /\ LET r == getDashboardData(timeRange, data, mongoDown, redisReady, dashCache)
     IN /\ dashCache' = r.store
        /\ lastOp' = [op |-> "getDashboardData", timeRange |-> timeRange,
                      data |-> data, mongoDown |-> mongoDown,
                      ready |-> redisReady, before |-> dashCache,
                      generated |-> r.generated, result |-> r.result]
  /\ UNCHANGED <<authVars, aiVars, chatCache, db, activeChats>>

\* The five minutes of an entry are over.
ExpireDashboard ==
  /\ IsNull(lastOp)
  /\ \E key \in DOMAIN dashCache : dashCache' = WithoutKey(dashCache, key)
  /\ UNCHANGED <<authVars, aiVars, chatVars>>

NextDashboard ==
  \/ \E timeRange \in DashboardArguments, data \in DashboardData, mongoDown \in BOOLEAN :
       GetDashboardData(timeRange, data, mongoDown)
  \/ StageReturns
  \/ ExpireDashboard
  \/ RedisDown
  \/ RedisUp

SpecDashboard == InitChat /\ [][NextDashboard]_vars

(***************************************************************************)
(* The cache helpers of config/redis.js called on their own, one call at a *)
(* time, on the 'chat:' keys: with the client ready or not, the Redis call *)
(* rejecting or not (`fails`), and a value that is a Mongoose document,    *)
(* plain data or null.  lastOp keeps the call, the keys as they were and   *)
(* as the call left them, and what the helper returned.                    *)
(***************************************************************************)
ApplySetCache(key, value, fails) ==
  /\ IsNull(lastOp)
  /\ chatCache' = setCacheStore(redisReady /\ ~fails, chatCache, key, value, CHAT_TTL)
  /\ lastOp' = [op |-> "setCache", key |-> key, value |-> value,
                usable |-> redisReady /\ ~fails, before |-> chatCache,
                after |-> chatCache', result |-> setCacheResult(redisReady /\ ~fails)]
  /\ UNCHANGED <<authVars, dashCache, aiVars, db, activeChats>>

ApplyGetCache(key, fails) ==
  /\ IsNull(lastOp)
  /\ lastOp' = [op |-> "getCache", key |-> key,
                usable |-> redisReady /\ ~fails, before |-> chatCache,
                after |-> chatCache,
                result |-> getCache(redisReady /\ ~fails, chatCache, key)]
  /\ UNCHANGED <<authVars, dashCache, aiVars, chatCache, db, activeChats>>

ApplyDeleteCache(key, fails) ==
  /\ IsNull(lastOp)
  /\ chatCache' = deleteCacheStore(redisReady /\ ~fails, chatCache, key)
  /\ lastOp' = [op |-> "deleteCache", key |-> key,
                usable |-> redisReady /\ ~fails, before |-> chatCache,
                after |-> chatCache', result |-> redisReady /\ ~fails]
  /\ UNCHANGED <<authVars, dashCache, aiVars, db, activeChats>>

NextCache ==
  \/ \E key \in Rooms, value \in {NewChat("r1", "u1"), SeedResult, Null},
        fails \in BOOLEAN : ApplySetCache(key, value, fails)
  \/ \E key \in Rooms, fails \in BOOLEAN : ApplyGetCache(key, fails)
  \/ \E key \in Rooms, fails \in BOOLEAN : ApplyDeleteCache(key, fails)
  \/ StageReturns
  \/ ExpireChat
  \/ RedisDown
  \/ RedisUp

SpecCache == InitChat /\ [][NextCache]_vars

(***************************************************************************)
(* routes/auth.js behind the global error handler, and the auth            *)
(* middleware.  An account is [username, email, isActive, isLocked]; its   *)
(* id is its place in `users`.  A token stands for the id it was signed    *)
(* for, 0 for a token that does not verify.  A response is [status,        *)
(* message, token], token 0 when the body carries none.  The User model is *)
(* not among the sources: the collection is taken to have a unique index   *)
(* on email and one on username, findByEmailOrUsername to match either     *)
(* field, isLocked to be set by incLoginAttempts once the attempts run out *)
(* and to lapse with time.  register awaits twice, so it is two steps:     *)
(* the lookup and the save; every other handler is one step.  lastOp keeps *)
(* the latest response with what the request met.                          *)
(***************************************************************************)
\* User.findByEmailOrUsername: the id of the account, 0 for null.
findByEmailOrUsername(identifier) ==
  LET found == {id \in DOMAIN users :
                  users[id].email = identifier \/ users[id].username = identifier}
  IN IF found = {} THEN 0 ELSE CHOOSE id \in found : TRUE

Response(status, message, token) ==
  [status |-> status, message |-> message, token |-> token]

\* errorHandler: err is [code, field, statusCode, message].
errorHandler(err) ==
  IF err.code = 11000
  THEN Response(400, IF err.field = "email" THEN "Email already exists"
                     ELSE "Username already exists", 0)
  ELSE Response(IF err.statusCode = 0 THEN 500 ELSE err.statusCode, err.message, 0)

\* new AppError(message, statusCode), as ErrorTypes builds it.
AppError(message, statusCode) ==
  [code |-> 0, field |-> "", statusCode |-> statusCode, message |-> message]

\* Whether the account is deactivated or locked.
Barred(id) == id # 0 /\ (~users[id].isActive \/ users[id].isLocked)

\* POST /register up to its first await: the lookup, by the email alone.
RegisterLookup(body) ==
  /\ body \notin pending
  /\ IF findByEmailOrUsername(body.email) # 0
     THEN /\ lastOp' = [op |-> "register", body |-> body, taken |-> TRUE,
                        response |-> errorHandler(AppError(
                          "User with this email or username already exists", 409))]
          /\ UNCHANGED pending
     ELSE /\ pending' = pending \cup {body}
          /\ UNCHANGED lastOp
  /\ UNCHANGED <<users, dashCache, aiVars, chatCache, db, activeChats>>

\* POST /register from user.save() on.
RegisterSave(body) ==
  LET sameEmail == \E id \in DOMAIN users : users[id].email = body.email
      sameName == \E id \in DOMAIN users : users[id].username = body.username
  IN
  /\ body \in pending
  /\ pending' = pending \ {body}
  /\ IF sameEmail \/ sameName
     THEN /\ lastOp' = [op |-> "register", body |-> body, taken |-> TRUE,
                        response |-> errorHandler(
                          [code |-> 11000,
                           field |-> IF sameEmail THEN "email" ELSE "username",
                           statusCode |-> 0, message |-> "E11000 duplicate key"])]
          /\ UNCHANGED users
     ELSE /\ users' = Append(users, [username |-> body.username, email |-> body.email,
                                     isActive |-> TRUE, isLocked |-> FALSE])
          /\ lastOp' = [op |-> "register", body |-> body, taken |-> FALSE,
                        response |-> Response(201, "User registered successfully",
                                              Len(users) + 1)]
  /\ UNCHANGED <<dashCache, aiVars, chatCache, db, activeChats>>

\* POST /login.  locks: this failed attempt is the one that locks.
Login(identifier, passwordValid, locks) ==
  LET id == findByEmailOrUsername(identifier)
      Answer(response) ==
        lastOp' = [op |-> "login", account |-> id, barred |-> Barred(id),
                   response |-> response]
  IN
  /\ IF id = 0
     THEN Answer(errorHandler(AppError("Invalid credentials", 401))) /\ UNCHANGED users
     ELSE IF users[id].isLocked
     THEN Answer(errorHandler(AppError("Account is temporarily locked", 403)))
          /\ UNCHANGED users
     ELSE IF ~users[id].isActive
     THEN Answer(errorHandler(AppError("Account is deactivated", 403)))
          /\ UNCHANGED users
     ELSE IF ~passwordValid
     THEN /\ Answer(errorHandler(AppError("Invalid credentials", 401)))
          /\ users' = [users EXCEPT ![id].isLocked = locks]
     ELSE Answer(Response(200, "Login successful", id)) /\ UNCHANGED users
  /\ UNCHANGED <<pending, dashCache, aiVars, chatCache, db, activeChats>>

\* POST /refresh
Refresh(token) ==
  /\ token \in 0..Len(users)
  /\ lastOp' = [op |-> "refresh", account |-> token, barred |-> Barred(token),
                response |->
                  IF token = 0 \/ ~users[token].isActive
                  THEN errorHandler(AppError("Invalid token", 401))
                  ELSE Response(200, "Token refreshed successfully", token)]
  /\ UNCHANGED <<authVars, dashCache, aiVars, chatCache, db, activeChats>>

\* The auth middleware on a request to a private route: status 0 stands for
\* next() with req.user set.
Auth(token) ==
  /\ token \in 0..Len(users)
  /\ lastOp' = [op |-> "auth", account |-> token, barred |-> Barred(token),
                response |->
                  IF token = 0 THEN Response(401, "Invalid token.", 0)
                  ELSE IF ~users[token].isActive
                  THEN Response(401, "Account is deactivated.", 0)
                  ELSE IF users[token].isLocked
                  THEN Response(423, "Account is temporarily locked", 0)
                  ELSE Response(0, "", 0)]
  /\ UNCHANGED <<authVars, dashCache, aiVars, chatCache, db, activeChats>>

\* DELETE /account, for a request the middleware let through.
DeleteAccount(token, passwordValid) ==
  /\ token \in 1..Len(users)
  /\ ~Barred(token)
  /\ IF passwordValid
     THEN /\ users' = [users EXCEPT ![token].isActive = FALSE]
          /\ lastOp' = [op |-> "deleteAccount", account |-> token,
                        response |-> Response(200, "Account deactivated successfully", 0)]
     ELSE /\ lastOp' = [op |-> "deleteAccount", account |-> token,
                        response |-> errorHandler(AppError("Password is incorrect", 401))]
          /\ UNCHANGED users
  /\ UNCHANGED <<pending, dashCache, aiVars, chatCache, db, activeChats>>

\* POST /forgot-password
ForgotPassword(email) ==
  /\ lastOp' = [op |-> "forgotPassword", email |-> email,
                response |->
                  IF \E id \in DOMAIN users : users[id].email = email
                  THEN Response(200, "Password reset link sent to your email", 0)
                  ELSE Response(200, "If an account with that email exists, a password reset link has been sent", 0)]
  /\ UNCHANGED <<authVars, dashCache, aiVars, chatCache, db, activeChats>>

\* lockUntil has passed.
LockLapses(id) ==
  /\ id \in DOMAIN users
  /\ users[id].isLocked
  /\ users' = [users EXCEPT ![id].isLocked = FALSE]
  /\ UNCHANGED <<pending, dashCache, aiVars, chatVars>>

SpecAuth == InitChat /\ [][
  \/ \E body \in [username : {"alice", "bob"}, email : {"a@x", "b@x"}] :
       RegisterLookup(body) \/ RegisterSave(body)
  \/ \E identifier \in {"alice", "b@x"}, passwordValid \in BOOLEAN, locks \in BOOLEAN :
       Login(identifier, passwordValid, locks)
  \/ \E token \in 0..2 : Refresh(token) \/ Auth(token)
  \/ \E token \in 1..2, passwordValid \in BOOLEAN : DeleteAccount(token, passwordValid)
  \/ \E email \in {"a@x", "b@x"} : ForgotPassword(email)
  \/ \E id \in 1..2 : LockLapses(id)
  ]_vars

(***************************************************************************)
(* The 'message' event of the socket server.  The handler awaits           *)
(* processMessage, whose steps are the stages above, and goes on once the  *)
(* call has returned or thrown: it saves the message, emits to the room,   *)
(* and in its catch emits 'error' to the sending socket.  trackMessage is  *)
(* dispatched without await and catches its own errors.  lastOp keeps how  *)
(* processMessage ended, whether the chat is a stored document that        *)
(* getChat loads rather than a cached copy and the text a non-blank        *)
(* string, how saveMessage ended, whether the message was stored, and the  *)
(* events emitted, in order.                                               *)
(***************************************************************************)
Emitted(to, event, type) == [to |-> to, event |-> event, type |-> type]

HandleMessage(c) ==
  LET k == calls[c]
      r == saveMessage(MessageData(k.userId, k.roomId, k.message, k.result, 0))
      failed == k.pc = "thrown" \/ r.outcome # "ok"
  IN
  /\ k.pc \in {"returned", "thrown"}
  /\ calls' = [calls EXCEPT ![c] = IdleCall]
  /\ lastDone' = IF k.pc = "returned" THEN [message |-> k.message, result |-> k.result]
                 ELSE lastDone
  /\ processed' = IF k.pc = "returned" /\ Missed(k)
                  THEN [processed EXCEPT ![<<k.userId, k.roomId>>] = @ + 1]
                  ELSE processed
  /\ IF k.pc = "thrown" THEN UNCHANGED <<db, chatCache, activeChats>>
     ELSE /\ db' = r.db
          /\ chatCache' = r.cache
          /\ activeChats' = r.active
  /\ lastOp' = [op |-> "message", roomId |-> k.roomId, userId |-> k.userId,
                raised |-> k.raised, processing |-> k.pc,
                outcome |-> IF k.pc = "thrown" THEN "thrown" ELSE r.outcome,
                storable |-> /\ k.roomId \in DOMAIN db
                             /\ IsNull(getCache(redisReady, chatCache, k.roomId))
                             /\ k.message.isString /\ Trim(k.message.chars) # <<>>,
                saved |-> k.pc = "returned" /\ k.roomId \in DOMAIN r.db
                          /\ (k.roomId \in DOMAIN db =>
                                Len(r.db[k.roomId].messages) > Len(db[k.roomId].messages)),
                emitted |-> IF failed THEN <<Emitted("socket", "error", "")>>
                            ELSE <<Emitted(k.roomId, "message", "user"),
                                   Emitted(k.roomId, "message", "ai")>>]
  /\ UNCHANGED <<authVars, dashCache, redisReady, openaiKey, aiCache, ctxCache, started,
                 cacheLoss>>

SpecSocket == InitChat /\ [][
  \/ \E userId \in ChatUsers : CreateChat(userId)
  \/ \E c \in CallSlots, message \in {TextHello, NotAString}, sender \in Senders :
       StartCall(c, message, sender)
  \/ \E c \in CallSlots : StageCacheRead(c)
  \/ \E c \in CallSlots : StageIntent(c)
  \/ \E c \in CallSlots : StageEntities(c)
  \/ \E c \in CallSlots : StageSentiment(c)
  \/ \E c \in CallSlots : StageContext(c)
  \/ \E c \in CallSlots : StageGenerate(c)
  \/ \E c \in CallSlots : StageUpdateContext(c)
  \/ \E c \in CallSlots : HandleMessage(c)
  \/ ExpireChat
  ]_vars

(***************************************************************************)
(* Two 'message' events whose processMessage calls overlap: the server is  *)
(* one event loop, so the calls interleave at their awaits.  The slots c1  *)
(* and c2 hold the two calls; the process starts on an empty, ready Redis. *)
(***************************************************************************)
InitOverlap ==
  /\ redisReady = TRUE
  /\ openaiKey = FALSE
  /\ aiCache = EmptyStore
  /\ ctxCache = EmptyStore
  /\ calls = [c \in {"c1", "c2"} |-> IdleCall]
  /\ started = 0
  /\ lastDone = Null
  /\ cacheLoss = FALSE
  /\ processed = [s \in Senders |-> 0]
  /\ ChatIdle

SpecOverlap ==
  /\ InitOverlap
  /\ [][\E c \in {"c1", "c2"} :
          \/ \E message \in {TextHello, TextHelloLoud} :
               StartCall(c, message, <<"u1", "r1">>)
          \/ StageCacheRead(c)
          \/ StageIntent(c)
          \/ StageEntities(c)
          \/ StageSentiment(c)
          \/ StageContext(c)
          \/ StageGenerate(c)
          \/ StageUpdateContext(c)
          \/ FinishCall(c)]_vars

(***************************************************************************)
(* Properties of processMessage.                                           *)
(***************************************************************************)
ResultFields == {"response", "intent", "entities", "sentiment", "confidence", "cached"}

\* C1: processMessage never throws to its caller: every call that ends,
\* ends by returning a result with all its fields, and a call in which an
\* exception was raised returns exactly the fixed fallback (the apology,
\* intent 'fallback' at 0.1, no entities, 'neutral', cached = false).
C1_NeverThrows ==
  \A c \in CallSlots :
    /\ calls[c].pc # "thrown"
    /\ calls[c].pc = "returned" =>
         /\ DOMAIN calls[c].result = ResultFields
         /\ calls[c].raised =>
              /\ calls[c].result.response = ProcessApology
              /\ calls[c].result.intent = [name |-> "fallback", confidence |-> 10]
              /\ calls[c].result.entities = <<>>
              /\ calls[c].result.sentiment = "neutral"
              /\ calls[c].result.cached = FALSE

\* An exception raised after every stage before the context update ran.
C1_Witness ==
  \E c \in CallSlots :
    /\ calls[c].pc = "returned" /\ calls[c].raised
    /\ Len(calls[c].trace) = 6
    /\ calls[c].result = FallbackResult

\* C2: a second processMessage with the same text, made after the first
\* returned and with the cache intact in between, returns the first call's
\* response, intent, entities and sentiment, with cached = true.
C2_SecondCallCached ==
  \A c \in CallSlots :
    (calls[c].pc = "returned" /\ ~IsNull(calls[c].prior) /\ ~cacheLoss) =>
      /\ calls[c].result.cached = TRUE
      /\ calls[c].result.response = calls[c].prior.response
      /\ calls[c].result.intent = calls[c].prior.intent
      /\ calls[c].result.entities = calls[c].prior.entities
      /\ calls[c].result.sentiment = calls[c].prior.sentiment

IsGreetingTemplate(response) ==
  \E i \in DOMAIN responseTemplates["greeting"] :
    response.id = responseTemplates["greeting"][i].id

\* C3: a call that missed the cache returns with the context updated and
\* with its full result stored under the lower-cased trimmed text for one
\* hour; 'hello' classified as a greeting above 0.7, with no prior context,
\* returns intent 'greeting', a greeting template and sentiment 'neutral'.
C3_MissStoresResult ==
  \A c \in CallSlots :
    LET k == calls[c]
        key == Trim(ToLowerCase(k.message.chars))
    IN (k.pc = "returned" /\ Len(k.trace) > 0 /\ ~cacheLoss) =>
         /\ key \in DOMAIN aiCache
         /\ aiCache[key] = [value |-> k.result, ttl |-> RESPONSE_TTL]
         /\ <<k.userId, k.roomId>> \in DOMAIN ctxCache
         /\ (k.message = TextHello /\ k.intent.name = "greeting"
               /\ k.intent.confidence > 70 /\ k.sentiment = "neutral"
               /\ k.response # GenerateApology) =>
              /\ k.result.intent.name = "greeting"
              /\ IsGreetingTemplate(k.result.response)
              /\ k.result.sentiment = "neutral"

\* C4: when an entry exists for the lower-cased trimmed text, the call
\* returns that entry (cached = true) whoever the user and the room are
\* and whatever context is stored, runs no stage, and reads and writes no
\* context entry.
C4_CachedPath ==
  /\ \A c \in CallSlots :
       (calls[c].pc = "returned" /\ calls[c].sawEntry) =>
         /\ calls[c].result = [SeedResult EXCEPT !.cached = TRUE]
         /\ calls[c].trace = <<>>
         /\ calls[c].contextReads = 0
         /\ ~calls[c].raised
  /\ \A key \in DOMAIN ctxCache : ctxCache[key] = SeedContexts[key]

\* The entry stored for 'hello' answers ' Hello ' sent by another user in
\* another room, while a context of the first user is stored.
C4_Witness ==
  \E c \in CallSlots :
    /\ calls[c].pc = "returned" /\ calls[c].sawEntry /\ calls[c].result.cached
    /\ calls[c].message = TextHelloLoud /\ calls[c].userId = "u2"
    /\ ContextKey("u1", "r1") \in DOMAIN ctxCache

StageOrder ==
  <<"intent", "entities", "sentiment", "context", "generate", "contextUpdate",
    "cacheWrite">>

\* C5: a call that missed the cache has run, when it returns, intent
\* detection, entity extraction, sentiment analysis, context fetch, response
\* generation, context update and cache write, each once and in this order.
C5_StageOrder ==
  \A c \in CallSlots :
    /\ Len(calls[c].trace) <= Len(StageOrder)
    /\ calls[c].trace = SubSeq(StageOrder, 1, Len(calls[c].trace))
    /\ (calls[c].pc = "returned" /\ Len(calls[c].trace) > 0) =>
         calls[c].trace = StageOrder

Min(a, b) == IF a <= b THEN a ELSE b

\* C6: when a cache-miss call of a sender returns, the stored context of
\* that sender holds the turns of the sender's processed messages in
\* arrival order, at most 20 of them, ends with this message's turn, has
\* this message's intent and entities as lastIntent and lastEntities, and
\* expires after 24 hours.
C6_ContextHistory ==
  /\ \A key \in DOMAIN ctxCache :
       Len(ctxCache[key].value.conversationHistory) <= HISTORY_CAP
  /\ \A c \in CallSlots :
       LET k == calls[c]
           key == <<k.userId, k.roomId>>
       IN (k.pc = "returned" /\ Len(k.trace) > 0 /\ ~cacheLoss) =>
            /\ key \in DOMAIN ctxCache
            /\ ctxCache[key].ttl = CONTEXT_TTL
            /\ LET history == ctxCache[key].value.conversationHistory
               IN /\ Len(history) = Min(processed[key] + 1, HISTORY_CAP)
                  /\ history[Len(history)] = [message |-> k.message, intent |-> k.intent]
            /\ ctxCache[key].value.lastIntent = k.intent
            /\ ctxCache[key].value.lastEntities = k.entities

(***************************************************************************)
(* Properties of ChatService.                                              *)
(***************************************************************************)

\* C7: a saveMessage call for an existing conversation, with a message text
\* and a response, returns and appends exactly that one message (author,
\* text, response, intent, entities, sentiment, confidence, latency) to the
\* stored list, whether getChat answered from the cache or from the store.
C7_SaveAppendsOne ==
  [][\A messageData \in MessageInputs :
       ( /\ SaveMessage(messageData)
         /\ messageData.roomId \in DOMAIN db
         /\ ValidMessage(MessageObj(messageData)) )
       => /\ lastOp'.outcome = "ok"
          /\ db'[messageData.roomId].messages =
               Append(db[messageData.roomId].messages,
                      CastMessage(MessageObj(messageData)))]_vars

RECURSIVE SeqSum(_)
SeqSum(numbers) ==
  IF numbers = <<>> THEN 0 ELSE Head(numbers) + SeqSum(Tail(numbers))

MeanIs(ratio, numbers) == ratio.num * Len(numbers) = SeqSum(numbers) * ratio.den

Latencies(chat) == [i \in DOMAIN chat.messages |-> chat.messages[i].responseTime]
Ratings(chat) ==
  LET rated == SelectSeq(chat.messages, IsRated)
  IN [i \in DOMAIN rated |-> rated[i].feedback.rating]

Statuses == {"active", "paused", "ended", "archived"}
StatusTransitions ==
  {<<"active", "paused">>, <<"paused", "active">>, <<"active", "ended">>}
    \cup {<<status, "archived">> : status \in Statuses \ {"archived"}}

\* C9: the status of a stored conversation changes only along active->paused,
\* paused->active, active->ended and any->archived, or from ended to active
\* by a joinChat; the status of an archived conversation never changes.
C9_StatusTransitions ==
  [][\A r \in DOMAIN db :
       /\ r \in DOMAIN db'
       /\ db'[r].status # db[r].status =>
            \/ <<db[r].status, db'[r].status>> \in StatusTransitions
            \/ /\ db[r].status = "ended"
               /\ db'[r].status = "active"
               /\ lastOp'.op = "joinChat"]_vars

\* C10: a stored message stays in its place with its author, text, response,
\* intent, entities, sentiment, confidence and latency, and once it has a
\* feedback that feedback is never replaced.
C10_MessageImmutable ==
  [][\A r \in DOMAIN db :
       /\ r \in DOMAIN db'
       /\ \A i \in DOMAIN db[r].messages :
            /\ i \in DOMAIN db'[r].messages
            /\ [db'[r].messages[i] EXCEPT !.feedback = db[r].messages[i].feedback]
                 = db[r].messages[i]
            /\ ~IsNull(db[r].messages[i].feedback) =>
                 db'[r].messages[i].feedback = db[r].messages[i].feedback]_vars

\* C11: once archiveChat has succeeded for a room, activeChats has no entry
\* for the room and Redis has no 'chat:<roomId>' entry; and as long as the
\* chat is archived no call puts the room back into activeChats.
C11_ArchivedEvicted ==
  \A r \in DOMAIN db :
    /\ db[r].status = "archived" => r \notin DOMAIN activeChats
    /\ (lastOp = [op |-> "archiveChat", roomId |-> r, outcome |-> "ok"]) =>
         /\ r \notin DOMAIN activeChats
         /\ r \notin DOMAIN chatCache

(***************************************************************************)
(* Properties of the stages.                                               *)
(***************************************************************************)
Applied(op) == ~IsNull(lastOp) /\ lastOp.op = op

\* C12: a result of detectIntent with source 'classifier' has a confidence
\* of at least 0.3, whatever value the classifier gave, 0 or none included.
C12_ConfidenceFloor ==
  (Applied("detectIntent") /\ lastOp.result.source = "classifier")
    => lastOp.result.confidence >= 30

\* The classifier gave 0.1 and the result says 0.3.
C12_Witness ==
  /\ Applied("detectIntent")
  /\ ~lastOp.cls.throws /\ lastOp.cls.value = 10
  /\ lastOp.result.source = "classifier"
  /\ lastOp.result.confidence = 30

\* C13: detectIntent sends a classification request only if the classifier's
\* probability is below 0.6 and a credential is configured; when the request
\* succeeds the result is its label at 0.8 from 'openai'; when it fails the
\* result is the classifier's label from 'classifier'; when the classifier
\* itself fails the result is 'unknown' at 0.1.
C13_Escalation ==
  Applied("detectIntent") =>
    /\ lastOp.requested =>
         ~lastOp.cls.throws /\ lastOp.cls.value < 60 /\ openaiKey
    /\ lastOp.result.source = "openai" =>
         lastOp.requested /\ lastOp.ai.ok
    /\ (lastOp.requested /\ lastOp.ai.ok) =>
         lastOp.result = [name |-> lastOp.ai.content, confidence |-> 80,
                          source |-> "openai"]
    /\ (lastOp.requested /\ ~lastOp.ai.ok) =>
         /\ lastOp.result.name = lastOp.cls.label
         /\ lastOp.result.source = "classifier"
    /\ lastOp.cls.throws =>
         lastOp.result.name = "unknown" /\ lastOp.result.confidence = 10

\* A request was sent and failed: the classifier's label is the result.
C13_Witness ==
  /\ Applied("detectIntent")
  /\ lastOp.requested /\ ~lastOp.ai.ok
  /\ lastOp.result.name = lastOp.cls.label
  /\ lastOp.result.source = "classifier"

\* C14: analyzeSentiment returns 'positive' exactly when the score is above
\* 2, 'negative' exactly when it is below -2, 'neutral' otherwise, and
\* 'neutral' when the analyzer fails.
C14_SentimentMapping ==
  Applied("analyzeSentiment") =>
    /\ lastOp.result \in Sentiments
    /\ lastOp.res.throws => lastOp.result = "neutral"
    /\ ~lastOp.res.throws =>
         /\ lastOp.result = "positive" <=> lastOp.res.score > 2
         /\ lastOp.result = "negative" <=> lastOp.res.score < -2

\* The score 2 gives 'neutral'.
C14_Witness ==
  /\ Applied("analyzeSentiment")
  /\ ~lastOp.res.throws /\ lastOp.res.score = 2
  /\ lastOp.result = "neutral"

TemplateIdsOf(name) ==
  {responseTemplates[name][i].id : i \in DOMAIN responseTemplates[name]}

\* C15: when nothing is thrown, generateResponse answers from the templates
\* exactly when the intent has templates and its confidence is above 0.7;
\* the answer is then a personalized template of that intent and no
\* generation request is sent.
C15_TemplatePath ==
  (Applied("generateResponse") /\ ~lastOp.throws) =>
    LET applies == /\ lastOp.intent.name \in TrainedLabels
                   /\ lastOp.intent.confidence > 70
    IN /\ applies =>
            /\ ~lastOp.requested
            /\ \E i \in DOMAIN responseTemplates[lastOp.intent.name] :
                 lastOp.result =
                   personalizeResponse(responseTemplates[lastOp.intent.name][i],
                                       lastOp.sentiment, lastOp.context)
       /\ ~applies =>
            \A name \in TrainedLabels : lastOp.result.id \notin TemplateIdsOf(name)

\* A trained intent at 0.71, a credential configured: a template, no request.
C15_Witness ==
  /\ Applied("generateResponse") /\ ~lastOp.throws /\ openaiKey
  /\ lastOp.intent.name = "greeting" /\ lastOp.intent.confidence = 71
  /\ lastOp.result.id \in TemplateIdsOf("greeting")
  /\ ~lastOp.requested

FallbackIntents ==
  {"question", "information_request", "task_request", "learning", "creative"}

FallbackChoices(intent, sentiment) ==
  IF intent.name \in FallbackIntents THEN {IntentFallbacks[intent.name]}
  ELSE IF sentiment = "negative" THEN {NegativeFallback}
  ELSE {GenericFallbacks[i] : i \in 1..4}

\* C16: generateFallbackResponse returns the intent's fallback text for
\* question, information_request, task_request, learning and creative,
\* whatever the sentiment; otherwise the sentiment text when the sentiment
\* is 'negative'; otherwise one of the four generic texts.  generateResponse
\* takes that path when the template path does not apply and there is no
\* credential or the generation request fails.
C16_FallbackPriority ==
  /\ Applied("generateFallbackResponse") =>
       lastOp.result \in FallbackChoices(lastOp.intent, lastOp.sentiment)
  /\ ( /\ Applied("generateResponse") /\ ~lastOp.throws
       /\ ~(lastOp.intent.name \in TrainedLabels /\ lastOp.intent.confidence > 70)
       /\ (~openaiKey \/ ~lastOp.ai.ok) )
       => lastOp.result \in FallbackChoices(lastOp.intent, lastOp.sentiment)

\* A question with a negative sentiment gets the question's text.
C16_Witness ==
  /\ Applied("generateFallbackResponse")
  /\ lastOp.intent.name = "question" /\ lastOp.sentiment = "negative"
  /\ lastOp.result = IntentFallbacks["question"]

\* The text generateResponse chose, before any post-processing.
ChosenText(call) ==
  IF call.intent.name \in TrainedLabels /\ call.intent.confidence > 70
  THEN responseTemplates[call.intent.name][call.pick]
  ELSE IF openaiKey /\ call.ai.ok THEN call.ai.text
  ELSE generateFallbackResponse(call.intent, call.sentiment, call.pick)

\* C17: on the template path, the generative path and the fallback path the
\* text generateResponse returns is personalizeResponse applied to the
\* chosen text with the sentiment and the context.
C17_PersonalizedOnEveryPath ==
  (Applied("generateResponse") /\ ~lastOp.throws) =>
    lastOp.result =
      personalizeResponse(ChosenText(lastOp), lastOp.sentiment, lastOp.context)

FallbackPool ==
  {IntentFallbacks[name] : name \in FallbackIntents}
    \cup {NegativeFallback} \cup {GenericFallbacks[i] : i \in 1..4}

PersonalizedTemplates(intent, sentiment, context) ==
  IF intent.name \in TrainedLabels
  THEN {personalizeResponse(responseTemplates[intent.name][i], sentiment, context) :
          i \in DOMAIN responseTemplates[intent.name]}
  ELSE {}

\* C18: with no credential configured a processMessage call sends no
\* completion request, and the response it generates and the response it
\* returns are a personalized template of the detected intent, a text of the
\* fallback pools, or one of the two apologies.
C18_NoCredential ==
  ~openaiKey =>
    \A c \in CallSlots :
      /\ calls[c].requests = 0
      /\ ~IsNull(calls[c].response) =>
           calls[c].response \in
             PersonalizedTemplates(calls[c].intent, calls[c].sentiment, calls[c].context)
               \cup FallbackPool \cup {GenerateApology, ProcessApology}
      /\ ~IsNull(calls[c].result) =>
           calls[c].result.response \in
             PersonalizedTemplates(calls[c].result.intent, calls[c].sentiment,
                                   calls[c].context)
               \cup FallbackPool \cup {GenerateApology, ProcessApology}

\* No credential, a classifier confidence below 0.6: the call has returned,
\* it generated a fallback text and sent no request.
C18_Witness ==
  /\ ~openaiKey
  /\ \E c \in CallSlots :
       /\ calls[c].pc = "returned"
       /\ ~IsNull(calls[c].intent) /\ calls[c].intent.confidence < 60
       /\ calls[c].response \in FallbackPool
       /\ calls[c].requests = 0

(***************************************************************************)
(* Properties of the analytics dashboard.                                  *)
(***************************************************************************)
ZeroNumbers(d) ==
  /\ d.overview.totalUsers = 0 /\ d.overview.activeUsers = 0
  /\ d.overview.totalChats = 0 /\ d.overview.activeChats = 0
  /\ d.overview.totalMessages = 0
  /\ d.overview.averageResponseTime.num = 0
  /\ d.overview.averageSatisfaction.num = 0
  /\ d.performance.averageResponseTime.num = 0
  /\ d.performance.minResponseTime = 0 /\ d.performance.maxResponseTime = 0
  /\ d.performance.averageSatisfaction.num = 0
  /\ d.performance.totalRatings = 0
NoDistributions(d) ==
  /\ d.intents.intentDistribution = {}
  /\ d.sentiments.sentimentDistribution = {}
  /\ d.sentiments.overallSentiment = "neutral"
\* Nothing in the collections matches the range.
ZeroMatching(data) ==
  /\ data.matching = <<>>
  /\ data.activeUsers = 0
  /\ data.newest.messages = 0 /\ data.newest.users = 0 /\ data.newest.chats = 0

DashboardEntry(store, timeRange) ==
  IF DashboardKey(timeRange) \in DOMAIN store
  THEN store[DashboardKey(timeRange)] ELSE Null
\* A call leaves the entries of the other ranges as they were.
OtherRangesUntouched ==
  \A other \in DashboardArguments \ {lastOp.timeRange} :
    DashboardEntry(dashCache, other) = DashboardEntry(lastOp.before, other)
Regenerated ==
  /\ lastOp.generated
  /\ lastOp.result =
       generateDashboardData(lastOp.timeRange, lastOp.data, lastOp.mongoDown)

\* C20 as stated: a call for a range whose entry is stored and has not
\* expired returns the stored result without generating; a call for a
\* range with no entry generates, and its result is then stored for 300
\* seconds under the key of its range; the entries of the other ranges
\* are left alone.
C20_CachedFiveMinutes ==
  Applied("getDashboardData") /\ lastOp.timeRange # "Symbol()" =>
    LET had == DashboardEntry(lastOp.before, lastOp.timeRange)
        has == DashboardEntry(dashCache, lastOp.timeRange)
    IN /\ ~IsNull(had) => ~lastOp.generated /\ lastOp.result = had.value
       /\ IsNull(had) =>
            /\ Regenerated
            /\ has = [value |-> lastOp.result, ttl |-> DASHBOARD_TTL]
       /\ OtherRangesUntouched

\* C20, amended: the same while the Redis client is ready.  With the
\* client ready, a call for a range whose entry is stored returns the
\* stored result without generating, and a call for a range with no entry
\* generates and stores its result for 300 seconds under the key of its
\* range.  With the client not ready a call generates and changes no
\* entry.  The entries of the other ranges are left alone.
C20_CachedWhileReady ==
  Applied("getDashboardData") /\ lastOp.timeRange # "Symbol()" =>
    LET had == DashboardEntry(lastOp.before, lastOp.timeRange)
        has == DashboardEntry(dashCache, lastOp.timeRange)
    IN /\ lastOp.ready /\ ~IsNull(had) =>
            ~lastOp.generated /\ lastOp.result = had.value /\ has = had
       /\ lastOp.ready /\ IsNull(had) =>
            /\ Regenerated
            /\ has = [value |-> lastOp.result, ttl |-> DASHBOARD_TTL]
       /\ ~lastOp.ready => Regenerated /\ has = had
       /\ OtherRangesUntouched
\* A call answered from the entry of its range, although the collections
\* would now give another result, with another range stored beside it.
C20_Witness ==
  /\ Applied("getDashboardData")
  /\ lastOp.ready /\ ~lastOp.generated
  /\ lastOp.timeRange = "24h"
  /\ ~IsNull(DashboardEntry(lastOp.before, "24h"))
  /\ ~IsNull(DashboardEntry(lastOp.before, "1h"))
  /\ lastOp.result = DashboardEntry(lastOp.before, "24h").value
  /\ lastOp.result # generateDashboardData("24h", lastOp.data, lastOp.mongoDown)

(***************************************************************************)
(* Properties of the cache helpers.                                        *)
(***************************************************************************)
CacheCall == Applied("setCache") \/ Applied("getCache") \/ Applied("deleteCache")
\* What a helper returns has the helper's type; with the client unusable
\* or the Redis call rejecting it is null or false and no key changes; a
\* read changes no key.
CacheResults ==
  /\ Applied("getCache") =>
       /\ lastOp.after = lastOp.before
       /\ IF lastOp.usable /\ lastOp.key \in DOMAIN lastOp.before
          THEN lastOp.result = lastOp.before[lastOp.key].value
          ELSE IsNull(lastOp.result)
  /\ Applied("setCache") \/ Applied("deleteCache") =>
       /\ lastOp.result \in BOOLEAN
       /\ ~lastOp.usable => ~lastOp.result /\ lastOp.after = lastOp.before
  /\ Applied("deleteCache") /\ lastOp.usable =>
       lastOp.result /\ lastOp.key \notin DOMAIN lastOp.after
  /\ CacheCall =>
       \A k \in Rooms \ {lastOp.key} :
         /\ (k \in DOMAIN lastOp.after) = (k \in DOMAIN lastOp.before)
         /\ k \in DOMAIN lastOp.after => lastOp.after[k] = lastOp.before[k]

\* C21 as stated: the helpers keep their result types and fail soft, and
\* after a successful setCache a getCache of the same key returns the
\* value that was written.
C21_CacheContract ==
  /\ CacheResults
  /\ Applied("setCache") /\ lastOp.usable =>
       /\ lastOp.result
       /\ getCache(TRUE, lastOp.after, lastOp.key) = lastOp.value

\* C21, amended: the helpers keep their result types and fail soft, and
\* after a successful setCache a getCache of the same key returns the
\* value as JSON gives it back, stored with the expiry asked for: equal to
\* the value written when that is plain data or null, a plain object with
\* the data of the document when it is a Mongoose document.
C21_CacheContractJson ==
  /\ CacheResults
  /\ Applied("setCache") /\ lastOp.usable =>
       /\ lastOp.result
       /\ lastOp.after[lastOp.key].ttl = CHAT_TTL
       /\ getCache(TRUE, lastOp.after, lastOp.key) = JsonRoundTrip(lastOp.value)
       /\ "isDocument" \notin DOMAIN lastOp.value =>
            getCache(TRUE, lastOp.after, lastOp.key) = lastOp.value
       /\ "isDocument" \in DOMAIN lastOp.value =>
            /\ ~getCache(TRUE, lastOp.after, lastOp.key).isDocument
            /\ getCache(TRUE, lastOp.after, lastOp.key).roomId = lastOp.value.roomId
\* A read that returns the entry a setCache left, beside a call made with
\* the client unusable.
C21_Witness ==
  /\ Applied("getCache")
  /\ lastOp.usable
  /\ lastOp.key \in DOMAIN lastOp.before
  /\ lastOp.result = SeedResult

(***************************************************************************)
(* Properties of routes/auth.js                                            *)
(***************************************************************************)
\* No two accounts share an email or a username.
AccountsUnique ==
  \A i, j \in DOMAIN users :
    (users[i].email = users[j].email \/ users[i].username = users[j].username) => i = j

\* C22: a registration whose email or username is already taken is answered
\* with 409 Conflict and creates no second account, whatever the order of
\* the requests, two registrations in flight together included.
C22_TakenIsConflict ==
  /\ AccountsUnique
  /\ (Applied("register") /\ lastOp.taken) => lastOp.response.status = 409

\* C29: forgot-password does not tell whether an email has an account: the
\* status and the body of the answer are those given for an email that has
\* none.
C29_SameAnswer ==
  Applied("forgotPassword") =>
    lastOp.response =
      Response(200, "If an account with that email exists, a password reset link has been sent", 0)

\* A deactivated account stays deactivated.
StaysDeactivated ==
  [][\A id \in DOMAIN users : ~users[id].isActive => ~users'[id].isActive]_vars

\* C30: while an account is locked or deactivated, login and refresh issue
\* it no token and the auth middleware admits no request made in its name;
\* a deleted account is deactivated, so the same goes for it ever after.
C30_BarredRejected ==
  /\ (Applied("login") \/ Applied("refresh") \/ Applied("auth")) /\ lastOp.barred
       => lastOp.response.token = 0 /\ lastOp.response.status \notin {0, 200, 201}
  /\ (Applied("deleteAccount") /\ lastOp.response.status = 200)
       => ~users[lastOp.account].isActive

(***************************************************************************)
(* Properties of the trend intervals                                       *)
(***************************************************************************)
TrendRanges == {"1h", "24h", "7d", "30d", "90d"}

\* The buckets number intervalCount, each as wide as the range's interval,
\* each ending where the next starts.
BucketsContiguous(timeRange) ==
  LET intervals == getTimeIntervals(timeRange, Now)
  IN /\ Len(intervals) = 24
     /\ \A k \in 1..24 :
          intervals[k].end - intervals[k].start = getIntervalDuration(timeRange)
     /\ \A k \in 1..23 : intervals[k].end = intervals[k + 1].start

\* C25: for each range the trend series has exactly 24 buckets of the range's
\* width, contiguous and non-overlapping, and they cover the window: 24
\* widths make the range's length and the last bucket ends at the current
\* time.
C25_BucketsCoverWindow ==
  (Applied("getDashboardData") /\ lastOp.timeRange \in TrendRanges) =>
    /\ BucketsContiguous(lastOp.timeRange)
    /\ 24 * getIntervalDuration(lastOp.timeRange)
         = Now - getTimeFilter(lastOp.timeRange, Now)
    /\ getTimeIntervals(lastOp.timeRange, Now)[24].end = Now

\* The buckets are contiguous for every range; for the ranges other than 7d,
\* 24 widths make the range's length.
C25_Holds ==
  (Applied("getDashboardData") /\ lastOp.timeRange \in TrendRanges) =>
    /\ BucketsContiguous(lastOp.timeRange)
    /\ lastOp.timeRange # "7d" =>
         24 * getIntervalDuration(lastOp.timeRange)
           = Now - getTimeFilter(lastOp.timeRange, Now)
    /\ getTimeIntervals(lastOp.timeRange, Now)[24].end
         = Now + getIntervalDuration(lastOp.timeRange)

(***************************************************************************)
(* Properties of the 'message' event                                       *)
(***************************************************************************)
RoomMessages(roomId) ==
  <<Emitted(roomId, "message", "user"), Emitted(roomId, "message", "ai")>>

SocketError == <<Emitted("socket", "error", "")>>

\* C23: a stage of processMessage that fails never shows as a socket error:
\* when a stage raised during the call, for a text message on an existing
\* conversation whose document saveMessage loads, the handler stores the
\* message and emits the user and the AI 'message' events, and no 'error'.
C23_StageFailureNoError ==
  (Applied("message") /\ lastOp.raised /\ lastOp.storable) =>
    /\ lastOp.outcome = "ok" /\ lastOp.saved
    /\ lastOp.emitted = RoomMessages(lastOp.roomId)

C23_Witness ==
  /\ Applied("message") /\ lastOp.raised /\ lastOp.storable
  /\ lastOp.emitted = RoomMessages(lastOp.roomId)
  /\ Len(db[lastOp.roomId].messages) > 0

\* C26: per 'message' event the room gets the user message and then the AI
\* message, both only once processMessage has returned and saveMessage has
\* stored the message; when processing or persistence fails the sending
\* socket alone gets exactly one 'error' event and nobody gets a 'message'.
C26_EmitsAfterSave ==
  Applied("message") =>
    /\ lastOp.emitted \in {RoomMessages(lastOp.roomId), SocketError}
    /\ lastOp.emitted = RoomMessages(lastOp.roomId) =>
         lastOp.processing = "returned" /\ lastOp.saved
    /\ (lastOp.processing = "thrown" \/ lastOp.outcome # "ok") =>
         lastOp.emitted = SocketError

C26_Witness ==
  /\ Applied("message") /\ lastOp.outcome = "TypeError"
  /\ lastOp.emitted = SocketError
  /\ Len(db[lastOp.roomId].messages) > 0

(***************************************************************************)
(* Properties of overlapping processMessage calls                          *)
(***************************************************************************)
\* Both calls have returned and neither result has been handed over yet,
\* the texts make the same key, and both reads of the key missed.
BothMissed ==
  /\ DOMAIN calls = {"c1", "c2"}
  /\ \A c \in DOMAIN calls :
       /\ calls[c].pc = "returned" /\ calls[c].message.isString
       /\ ~calls[c].sawEntry /\ ~calls[c].result.cached
  /\ SameText(calls["c1"].message, calls["c2"].message)

\* C24: processMessage's read of the cache and its later write are not one
\* step: two overlapping calls with the same text that both miss both run
\* the pipeline and both write the entry, which then holds the result of
\* one of them (the last to write).
C24_BothWrite ==
  BothMissed =>
    /\ \A c \in DOMAIN calls :
         /\ \E i \in DOMAIN calls[c].trace : calls[c].trace[i] = "intent"
         /\ \E i \in DOMAIN calls[c].trace : calls[c].trace[i] = "cacheWrite"
    /\ CacheKey(calls["c1"].message) \in DOMAIN aiCache
    /\ aiCache[CacheKey(calls["c1"].message)].value
         \in {calls["c1"].result, calls["c2"].result}

\* Both calls missed and both ran the stages up to the context update.
C24_BothRan ==
  BothMissed =>
    \A c \in DOMAIN calls :
      /\ \E i \in DOMAIN calls[c].trace : calls[c].trace[i] = "intent"
      /\ \E i \in DOMAIN calls[c].trace : calls[c].trace[i] = "contextUpdate"

(***************************************************************************)
(* Properties of joinChat                                                  *)
(***************************************************************************)
\* C27: joinChat succeeds only on a chat whose stored status is 'active':
\* on a paused, ended or archived chat it throws 'Chat is not active' and
\* adds no participant, a 'chat:<roomId>' entry written earlier being still
\* in the cache or not.
C27_JoinOnlyActive ==
  [][(/\ ~IsNull(lastOp') /\ lastOp'.op = "joinChat"
      /\ lastOp'.roomId \in DOMAIN db
      /\ db[lastOp'.roomId].status # "active")
     => (lastOp'.outcome = "Chat is not active" /\ db' = db)]_vars

\* At most one participant entry per user.
OneEntryPerUser(chat) ==
  \A i, j \in DOMAIN chat.participants :
    chat.participants[i].userId = chat.participants[j].userId => i = j

\* C28: once joinChat has succeeded the user is an active participant of
\* the chat (an entry without leftAt), and the chat has at most one entry
\* per user; so too for a user who had left through endChat while others
\* kept the chat active.
C28_JoinedIsActive ==
  [][\A userId \in ChatUsers, roomId \in ChatRooms :
       (JoinChat(userId, roomId) /\ lastOp'.outcome = "ok") =>
         /\ roomId \in DOMAIN db'
         /\ HasActiveParticipant(db'[roomId], userId)
         /\ OneEntryPerUser(db'[roomId])]_vars

\* Every stored chat has at most one entry per user.
C28_OneEntry == \A roomId \in DOMAIN db : OneEntryPerUser(db[roomId])

====
